---- MODULE Spec2Model ----
(***************************************************************************)
(* Model of cilium-policypilot's policy synthesis and verification:        *)
(* synth.SynthesizePolicies, synth.WritePoliciesToFile and                 *)
(* verify.VerifyPolicies.                                                  *)
(*                                                                         *)
(* Go strings are modelled as sequences of byte values, so that the        *)
(* string formatting the code relies on (key strings, "%v" of a map,       *)
(* "%d" of a port, bytewise "<") is computed and not assumed.  Label maps  *)
(* (map[string]string) are functions from key strings to value strings.    *)
(* Iteration over a Go map has no defined order: wherever the code's       *)
(* result depends on it, every order is a possible outcome.                *)
(***************************************************************************)
EXTENDS Integers, Sequences, FiniteSets, TLC

VARIABLES flows, pc, policies, synthErr, writeErr, file, result, namespaceFilter

vars == <<flows, pc, policies, synthErr, writeErr, file, result, namespaceFilter>>

(***************************************************************************)
(* Bounds of the model.                                                    *)
(***************************************************************************)
MaxFlows == 3

(***************************************************************************)
(* String literals of the program, as byte sequences.                      *)
(***************************************************************************)
StrAPIVersion == <<99, 105, 108, 105, 117, 109, 46, 105, 111, 47, 118, 50>>   \* "cilium.io/v2"
StrKind == <<67, 105, 108, 105, 117, 109, 78, 101, 116, 119, 111, 114, 107, 80, 111, 108, 105, 99, 121>>   \* "CiliumNetworkPolicy"
StrPolicySuffix == <<45, 112, 111, 108, 105, 99, 121>>   \* "-policy"
StrDefaultPolicy == <<100, 101, 102, 97, 117, 108, 116, 45, 112, 111, 108, 105, 99, 121>>   \* "default-policy"
StrTCP == <<84, 67, 80>>   \* "TCP"
StrUDP == <<85, 68, 80>>   \* "UDP"
StrICMP == <<73, 67, 77, 80>>   \* "ICMP"
StrSCTP == <<83, 67, 84, 80>>   \* "SCTP"
StrMarker == <<45, 45, 45>>   \* "---"
KeyApp == <<97, 112, 112>>   \* "app"
KeyK8sApp == <<107, 56, 115, 58, 97, 112, 112>>   \* "k8s:app"
KeyName == <<110, 97, 109, 101>>   \* "name"
KeyComponent == <<99, 111, 109, 112, 111, 110, 101, 110, 116>>   \* "component"
kApiVersion == <<97, 112, 105, 86, 101, 114, 115, 105, 111, 110>>   \* "apiVersion"
kKind == <<107, 105, 110, 100>>   \* "kind"
kMetadata == <<109, 101, 116, 97, 100, 97, 116, 97>>   \* "metadata"
kName == <<110, 97, 109, 101>>   \* "name"
kNamespace == <<110, 97, 109, 101, 115, 112, 97, 99, 101>>   \* "namespace"
kSpec == <<115, 112, 101, 99>>   \* "spec"
kEndpointSelector == <<101, 110, 100, 112, 111, 105, 110, 116, 83, 101, 108, 101, 99, 116, 111, 114>>   \* "endpointSelector"
kMatchLabels == <<109, 97, 116, 99, 104, 76, 97, 98, 101, 108, 115>>   \* "matchLabels"
kIngress == <<105, 110, 103, 114, 101, 115, 115>>   \* "ingress"
kEgress == <<101, 103, 114, 101, 115, 115>>   \* "egress"
kFromEndpoints == <<102, 114, 111, 109, 69, 110, 100, 112, 111, 105, 110, 116, 115>>   \* "fromEndpoints"
kToEndpoints == <<116, 111, 69, 110, 100, 112, 111, 105, 110, 116, 115>>   \* "toEndpoints"
kToPorts == <<116, 111, 80, 111, 114, 116, 115>>   \* "toPorts"
kPorts == <<112, 111, 114, 116, 115>>   \* "ports"
kPort == <<112, 111, 114, 116>>   \* "port"
kProtocol == <<112, 114, 111, 116, 111, 99, 111, 108>>   \* "protocol"

(***************************************************************************)
(* Go's string and formatting primitives.                                  *)
(***************************************************************************)
\* a < b on Go strings: bytewise lexicographic order
StrLess(a, b) ==
    \E i \in 1..Len(b) :
        /\ \A j \in 1..(i - 1) : j <= Len(a) /\ a[j] = b[j]
        /\ (i > Len(a) \/ a[i] < b[i])

\* sort.Strings / sort.Slice on records ordered by their string field k:
\* insertion of x after the elements that are not greater than it
InsertSorted(s, x) ==
    LET n == Cardinality({i \in 1..Len(s) : ~StrLess(x.k, s[i].k)})
    IN  SubSeq(s, 1, n) \o <<x>> \o SubSeq(s, n + 1, Len(s))

RECURSIVE SortByK(_)
SortByK(s) ==
    IF s = <<>> THEN <<>>
    ELSE InsertSorted(SortByK(SubSeq(s, 1, Len(s) - 1)), s[Len(s)])

\* the elements of a finite set of strings in ascending order
RECURSIVE SortedStrings(_)
SortedStrings(S) ==
    IF S = {} THEN <<>>
    ELSE LET m == CHOOSE x \in S : \A y \in S : ~StrLess(y, x)
         IN  <<m>> \o SortedStrings(S \ {m})

\* strings.Join(parts, sep)
RECURSIVE Join(_, _)
Join(parts, sep) ==
    IF parts = <<>> THEN <<>>
    ELSE IF Len(parts) = 1 THEN parts[1]
    ELSE parts[1] \o sep \o Join(Tail(parts), sep)

\* fmt.Sprintf("%d", n) for n >= 0
RECURSIVE FmtD(_)
FmtD(n) ==
    IF n < 10 THEN <<48 + n>>
    ELSE FmtD(n \div 10) \o <<48 + (n % 10)>>

\* fmt.Sprintf("%v", m) for a map[string]string: "map[k1:v1 k2:v2]" with the
\* keys in ascending order (fmt sorts map keys)
FmtV(m) ==
    LET ks == SortedStrings(DOMAIN m)
    IN  <<109, 97, 112, 91>>
        \o Join([i \in 1..Len(ks) |-> ks[i] \o <<58>> \o m[ks[i]]], <<32>>)
        \o <<93>>

(***************************************************************************)
(* hubble.ParsedFlow values handed to the synthesizer.                     *)
(***************************************************************************)
NoLabels == <<>>

ParsedFlow(srcLabels, dstNs, dstLabels, port, proto) ==
    [SourceLabels |-> srcLabels, SourceNamespace |-> <<97>>, SourcePod |-> <<>>,
     DestLabels |-> dstLabels, DestNamespace |-> dstNs, DestPod |-> <<>>,
     DestPort |-> port, Protocol |-> proto,
     Direction |-> "ingress", Verdict |-> "ALLOWED"]

NsA == <<97>>   \* "a"
NsB == <<98>>   \* "b"
LblAppX == (KeyApp :> <<120>>)                          \* {app: x}
LblAppF == (KeyApp :> <<102>>)                          \* {app: f}
LblComma == (<<98>> :> <<99, 44, 100, 61, 101>>)        \* {b: "c,d=e"}
LblTwo == (<<98>> :> <<99>>) @@ (<<100>> :> <<101>>)    \* {b: c, d: e}
LblSpace == (<<98>> :> <<99, 32, 100, 58, 101>>)        \* {b: "c d:e"}
LblLines == (KeyApp :> <<120, 10, 45, 45, 45>>)         \* {app: "x\n---"}

\* The flows inputs are drawn from.
FlowUniverse ==
    { ParsedFlow(LblAppF, NsA, LblAppX, 80, StrTCP),
      ParsedFlow(LblAppF, NsA, LblAppX, 443, StrUDP),
      ParsedFlow(LblAppF, NsA, LblAppX, 443, <<>>),
      ParsedFlow(LblAppF, NsA, LblAppX, 0, StrTCP),
      ParsedFlow(NoLabels, NsA, LblAppX, 80, StrTCP),
      ParsedFlow(LblAppF, NsA, NoLabels, 80, StrTCP),
      ParsedFlow(LblAppF, <<>>, LblAppX, 80, StrTCP),
      ParsedFlow(LblSpace, NsA, LblComma, 80, StrTCP),
      ParsedFlow(LblTwo, NsA, LblTwo, 443, StrTCP),
      ParsedFlow(LblAppF, NsA, LblSpace, 80, StrUDP),
      ParsedFlow(LblAppF, NsB, LblLines, 80, StrTCP) }

\* all sequences over S of length at most n
RECURSIVE SeqsUpTo(_, _)
SeqsUpTo(S, n) ==
    IF n = 0 THEN {<<>>}
    ELSE LET shorter == SeqsUpTo(S, n - 1)
         IN  shorter \cup {Append(s, x) : s \in shorter, x \in S}

\* all orders of the elements of a finite set
RECURSIVE Perms(_)
Perms(S) ==
    IF S = {} THEN {<<>>}
    ELSE UNION {{<<x>> \o p : p \in Perms(S \ {x})} : x \in S}

\* sort.Slice by distinct string keys: items[i] is placed by keys[i]
SortWithKeys(items, keys) ==
    LET sorted == SortByK([i \in 1..Len(items) |-> [k |-> keys[i], v |-> items[i]]])
    IN  [i \in 1..Len(items) |-> sorted[i].v]

(***************************************************************************)
(* package synth: grouping                                                 *)
(***************************************************************************)
EndpointKey(flow) ==
    [Namespace |-> flow.DestNamespace, Labels |-> flow.DestLabels]

\* "ns:k1=v1,k2=v2" with the pairs sorted as strings
endpointKeyToString(key) ==
    LET ks == SortedStrings(DOMAIN key.Labels)
        labelPairs == SortByK([i \in 1..Len(ks) |->
                          [k |-> ks[i] \o <<61>> \o key.Labels[ks[i]]]])
    IN  key.Namespace \o <<58>>
        \o Join([i \in 1..Len(labelPairs) |-> labelPairs[i].k], <<44>>)

\* a grouping loop that skips only the flows without destination labels
HasDestinationLabels(flow) ==
    ~(DOMAIN flow.DestLabels = {})

\* a grouping loop that also skips the flows whose verdict is not ALLOWED
HasAllowedDestination(flow) ==
    ~(flow.DestNamespace = <<>> \/ DOMAIN flow.DestLabels = {}) /\ flow.Verdict = "ALLOWED"

\* the flows the grouping loop does not skip
HasDestination(flow) ==
    ~(flow.DestNamespace = <<>> \/ DOMAIN flow.DestLabels = {})

\* the map `groups` after the first n flows: key string -> EndpointFlows
RECURSIVE GroupsAfter(_, _)
GroupsAfter(fs, n) ==
    IF n = 0 THEN <<>>
    ELSE LET groups == GroupsAfter(fs, n - 1)
             flow == fs[n]
             keyStr == endpointKeyToString(EndpointKey(flow))
         IN  IF ~HasDestination(flow) THEN groups
             ELSE IF keyStr \in DOMAIN groups
                  THEN [groups EXCEPT ![keyStr].Flows = Append(@, flow)]
                  ELSE groups @@ (keyStr :> [Key |-> EndpointKey(flow),
                                             Flows |-> <<flow>>])

\* the comparison function of the final sort.Slice
GroupLess(gi, gj) ==
    IF gi.Key.Namespace # gj.Key.Namespace
    THEN StrLess(gi.Key.Namespace, gj.Key.Namespace)
    ELSE StrLess(FmtV(gi.Key.Labels), FmtV(gj.Key.Labels))

\* The possible return values of groupFlowsByEndpoint.  The slice is filled
\* by ranging over the map (any order) and then sorted with GroupLess by a
\* sort that is not stable, so groups that GroupLess does not tell apart
\* come out in either order.
groupFlowsByEndpoint(fs) ==
    LET groups == GroupsAfter(fs, Len(fs))
        all == {groups[ks] : ks \in DOMAIN groups}
    IN  {order \in Perms(all) :
            \A i, j \in 1..Len(order) :
                i < j => ~GroupLess(order[j], order[i])}

(***************************************************************************)
(* package synth: rules and policies                                       *)
(***************************************************************************)
preferredKeys == <<KeyApp, KeyK8sApp, KeyName, KeyComponent>>

\* a generatePolicyName that takes the last of the preferred keys present
LastPreferredName(labels, first) ==
    LET present == {i \in 1..Len(preferredKeys) : preferredKeys[i] \in DOMAIN labels}
    IN  IF present # {}
        THEN labels[preferredKeys[CHOOSE i \in present : \A j \in present : j <= i]]
             \o StrPolicySuffix
        ELSE IF DOMAIN labels # {}
        THEN labels[first] \o StrPolicySuffix
        ELSE StrDefaultPolicy

\* generatePolicyName, where `first` is the key that ranging over the map
\* yields first (read by the fallback loop only)
generatePolicyName(labels, first) ==
    LET present == {i \in 1..Len(preferredKeys) : preferredKeys[i] \in DOMAIN labels}
    IN  IF present # {}
        THEN labels[preferredKeys[CHOOSE i \in present : \A j \in present : i <= j]]
             \o StrPolicySuffix
        ELSE IF DOMAIN labels # {}
        THEN labels[first] \o StrPolicySuffix
        ELSE StrDefaultPolicy

\* every name generatePolicyName may return for the labels
PolicyNames(labels) ==
    IF DOMAIN labels = {} THEN {generatePolicyName(labels, <<>>)}
    ELSE {generatePolicyName(labels, first) : first \in DOMAIN labels}

\* a rule loop that skips only the flows without source labels
HasSource(flow) ==
    ~(DOMAIN flow.SourceLabels = {})

\* the flows the rule loop does not skip
HasSourceAndPort(flow) ==
    ~(DOMAIN flow.SourceLabels = {}) /\ ~(flow.DestPort = 0)

\* protocol := flow.Protocol; if protocol == "" { protocol = "TCP" }
ProtocolOf(flow) ==
    IF flow.Protocol = <<>> THEN StrTCP ELSE flow.Protocol

\* a rule loop that adds the port of every flow, present or not
AppendPort(rule, portStr, protocol) ==
    LET withProto == {i \in 1..Len(rule.ToPorts) :
                         /\ Len(rule.ToPorts[i].Ports) > 0
                         /\ rule.ToPorts[i].Ports[1].Protocol = protocol}
        pp == [Port |-> portStr, Protocol |-> protocol]
    IN  IF withProto # {}
        THEN [rule EXCEPT !.ToPorts[CHOOSE i \in withProto : \A j \in withProto : i <= j].Ports
                              = Append(@, pp)]
        ELSE [rule EXCEPT !.ToPorts = Append(@, [Ports |-> <<pp>>])]

\* the rule after one more flow of its source: the port is added unless
\* already present, to the first PortRule of its protocol or to a new one
AddPort(rule, portStr, protocol) ==
    LET portExists ==
            \E i \in 1..Len(rule.ToPorts) :
                \E j \in 1..Len(rule.ToPorts[i].Ports) :
                    /\ rule.ToPorts[i].Ports[j].Port = portStr
                    /\ rule.ToPorts[i].Ports[j].Protocol = protocol
        withProto == {i \in 1..Len(rule.ToPorts) :
                         /\ Len(rule.ToPorts[i].Ports) > 0
                         /\ rule.ToPorts[i].Ports[1].Protocol = protocol}
        pp == [Port |-> portStr, Protocol |-> protocol]
    IN  IF portExists THEN rule
        ELSE IF withProto # {}
        THEN LET portRuleIndex == CHOOSE i \in withProto : \A j \in withProto : i <= j
             IN  [rule EXCEPT !.ToPorts[portRuleIndex].Ports = Append(@, pp)]
        ELSE [rule EXCEPT !.ToPorts = Append(@, [Ports |-> <<pp>>])]

\* the map `ruleMap` after the first n flows: "%v" of the source labels -> rule
RECURSIVE RuleMapAfter(_, _)
RuleMapAfter(fs, n) ==
    IF n = 0 THEN <<>>
    ELSE LET ruleMap == RuleMapAfter(fs, n - 1)
             flow == fs[n]
             sourceKey == FmtV(flow.SourceLabels)
             rule == IF sourceKey \in DOMAIN ruleMap THEN ruleMap[sourceKey]
                     ELSE [FromEndpoints |-> <<[MatchLabels |-> flow.SourceLabels]>>,
                           ToPorts |-> <<>>]
             updated == AddPort(rule, FmtD(flow.DestPort), ProtocolOf(flow))
         IN  IF ~HasSourceAndPort(flow) THEN ruleMap
             ELSE IF sourceKey \in DOMAIN ruleMap
                  THEN [ruleMap EXCEPT ![sourceKey] = updated]
                  ELSE ruleMap @@ (sourceKey :> updated)

\* sort.Slice of the ports of one PortRule by the port string
SortPorts(portRule) ==
    [Ports |-> SortWithKeys(portRule.Ports,
                            [i \in 1..Len(portRule.Ports) |-> portRule.Ports[i].Port])]

\* generateIngressRules: the rules of the map, the ports of every PortRule
\* sorted, the rules sorted by "%v" of their source labels (the map's keys,
\* which are distinct)
generateIngressRules(fs) ==
    LET ruleMap == RuleMapAfter(fs, Len(fs))
        keys == SortedStrings(DOMAIN ruleMap)
        rules == [i \in 1..Len(keys) |->
                    [ruleMap[keys[i]] EXCEPT
                        !.ToPorts = [t \in 1..Len(@) |-> SortPorts(@[t])]]]
    IN  SortWithKeys(rules,
                     [i \in 1..Len(rules) |-> FmtV(rules[i].FromEndpoints[1].MatchLabels)])

\* a generatePolicyForEndpoint without the check for an empty rule list
EmitsAlways(ingressRules) ==
    TRUE

\* whether generatePolicyForEndpoint returns a policy for these rules
EmitsPolicy(ingressRules) ==
    ~(Len(ingressRules) = 0)

\* generatePolicyForEndpoint: <<>> for a nil policy, else <<policy>>
generatePolicyForEndpoint(group, first) ==
    LET policyName == generatePolicyName(group.Key.Labels, first)
        ingressRules == generateIngressRules(group.Flows)
    IN  IF Len(group.Flows) = 0 THEN <<>>
        ELSE IF ~EmitsPolicy(ingressRules) THEN <<>>
        ELSE <<[APIVersion |-> StrAPIVersion,
                Kind |-> StrKind,
                Metadata |-> [Name |-> policyName, Namespace |-> group.Key.Namespace],
                Spec |-> [EndpointSelector |-> [MatchLabels |-> group.Key.Labels],
                          Ingress |-> ingressRules,
                          Egress |-> <<>>]]>>

\* the policy lists the loop over the groups can build from group n on
RECURSIVE PoliciesFrom(_, _)
PoliciesFrom(endpointGroups, n) ==
    IF n > Len(endpointGroups) THEN {<<>>}
    ELSE LET group == endpointGroups[n]
             firsts == IF DOMAIN group.Key.Labels = {} THEN {<<>>}
                       ELSE DOMAIN group.Key.Labels
         IN  {generatePolicyForEndpoint(group, first) \o rest :
                 first \in firsts, rest \in PoliciesFrom(endpointGroups, n + 1)}

\* a SynthesizePolicies without its guard
NeverRejects(fs) ==
    FALSE

\* a guard that also rejects an input none of whose flows has a destination
NothingToGroup(fs) ==
    \A i \in 1..Len(fs) : fs[i].DestNamespace = <<>> \/ DOMAIN fs[i].DestLabels = {}

\* the guard of SynthesizePolicies
NoFlowsProvided(fs) ==
    Len(fs) = 0

\* SynthesizePolicies: every (policies, error) the call may return; a nil
\* slice is the empty sequence, a nil error the empty string
SynthesizePolicies(fs) ==
    IF NoFlowsProvided(fs)
    THEN {[policies |-> <<>>, err |-> "no flows provided"]}
    ELSE {[policies |-> ps, err |-> ""] :
             ps \in UNION {PoliciesFrom(endpointGroups, 1) :
                              endpointGroups \in groupFlowsByEndpoint(fs)}}

(***************************************************************************)
(* yaml.Marshal of a Policy, as WritePoliciesToFile calls it.  The text is *)
(* kept as a sequence of lines; a line is a record                         *)
(*   kind "entry": [- ]key:[ value]   key at column ind, "- " two before   *)
(*   kind "item":  - {}               an empty mapping as sequence item    *)
(*   kind "text":  a line of a literal block scalar                        *)
(*   kind "sep":   the separator WritePoliciesToFile writes                *)
(* and LineText gives the bytes of a line.                                 *)
(***************************************************************************)
Line(kind, ind, dash, key, style, val) ==
    [kind |-> kind, ind |-> ind, dash |-> dash, key |-> key,
     style |-> style, val |-> val]

SepLine == Line("sep", 0, FALSE, <<>>, "none", StrMarker)

\* the pieces written one after the other (the two halves, each in turn)
RECURSIVE Concat(_)
Concat(ss) ==
    IF ss = <<>> THEN <<>>
    ELSE IF Len(ss) = 1 THEN ss[1]
    ELSE Concat(SubSeq(ss, 1, Len(ss) \div 2))
         \o Concat(SubSeq(ss, Len(ss) \div 2 + 1, Len(ss)))

\* strings.Split(s, "\n")
RECURSIVE SplitLines(_)
SplitLines(s) ==
    IF \A i \in 1..Len(s) : s[i] # 10 THEN <<s>>
    ELSE LET n == CHOOSE i \in 1..Len(s) :
                      s[i] = 10 /\ \A j \in 1..(i - 1) : s[j] # 10
         IN  <<SubSeq(s, 1, n - 1)>> \o SplitLines(SubSeq(s, n + 1, Len(s)))

\* the type a plain (unquoted) scalar resolves to when it is read back
ResolvePlain(s) ==
    IF s = <<>> \/ s = <<126>> \/ s = <<110, 117, 108, 108>> THEN "null"
    ELSE IF s = <<116, 114, 117, 101>> \/ s = <<102, 97, 108, 115, 101>> THEN "bool"
    ELSE IF \A i \in 1..Len(s) : s[i] \in 48..57 THEN "int"
    ELSE "str"

\* the style the encoder gives a Go string: a literal block when it has a
\* line break, plain when the plain form reads back as a string, else quoted
StyleOf(s) ==
    IF \E i \in 1..Len(s) : s[i] = 10 THEN "literal"
    ELSE IF ResolvePlain(s) = "str" THEN "plain"
    ELSE "dquote"

\* the column of what is nested under a key at column ind (4-space indent)
NextIndent(ind) ==
    4 * ((ind + 4) \div 4)

OpenEntry(ind, dash, key) ==
    Line("entry", ind, dash, key, "none", <<>>)

\* key: value for a string value; a literal block takes the lines after it
ScalarEntry(ind, dash, key, s) ==
    IF StyleOf(s) = "literal"
    THEN LET parts == SplitLines(s)
             clip == parts[Len(parts)] = <<>>
             body == IF clip THEN SubSeq(parts, 1, Len(parts) - 1) ELSE parts
         IN  <<Line("entry", ind, dash, key, "literal",
                    IF clip THEN <<124>> ELSE <<124, 45>>)>>
             \o [i \in 1..Len(body) |->
                    Line("text", IF body[i] = <<>> THEN 0 ELSE NextIndent(ind),
                         FALSE, <<>>, "none", body[i])]
    ELSE <<Line("entry", ind, dash, key, StyleOf(s), s)>>

\* matchLabels: the keys of a map are written in ascending order
MatchLabelsLines(ind, dash, labels) ==
    LET ks == SortedStrings(DOMAIN labels)
    IN  IF DOMAIN labels = {}
        THEN <<Line("entry", ind, dash, kMatchLabels, "flow", <<123, 125>>)>>
        ELSE <<OpenEntry(ind, dash, kMatchLabels)>>
             \o Concat([i \in 1..Len(ks) |->
                           ScalarEntry(NextIndent(ind), FALSE, ks[i], labels[ks[i]])])

SelectorLines(ind, dash, key, selectors) ==
    <<OpenEntry(ind, dash, key)>>
    \o Concat([i \in 1..Len(selectors) |->
                  MatchLabelsLines(NextIndent(ind) + 2, TRUE, selectors[i].MatchLabels)])

PortRuleLines(dashCol, portRule) ==
    IF Len(portRule.Ports) = 0
    THEN <<Line("entry", dashCol + 2, TRUE, kPorts, "flow", <<91, 93>>)>>
    ELSE <<OpenEntry(dashCol + 2, TRUE, kPorts)>>
         \o Concat([i \in 1..Len(portRule.Ports) |->
                       ScalarEntry(NextIndent(dashCol + 2) + 2, TRUE, kPort,
                                   portRule.Ports[i].Port)
                       \o ScalarEntry(NextIndent(dashCol + 2) + 2, FALSE, kProtocol,
                                      portRule.Ports[i].Protocol)])

ToPortsLines(ind, dash, toPorts) ==
    <<OpenEntry(ind, dash, kToPorts)>>
    \o Concat([i \in 1..Len(toPorts) |-> PortRuleLines(NextIndent(ind), toPorts[i])])

\* one IngressRule or EgressRule as a sequence item; both fields are omitempty
RuleLines(dashCol, selectorKey, selectors, toPorts) ==
    IF Len(selectors) = 0 /\ Len(toPorts) = 0
    THEN <<Line("item", dashCol + 2, TRUE, <<>>, "flow", <<123, 125>>)>>
    ELSE (IF Len(selectors) = 0 THEN <<>>
          ELSE SelectorLines(dashCol + 2, TRUE, selectorKey, selectors))
         \o (IF Len(toPorts) = 0 THEN <<>>
             ELSE ToPortsLines(dashCol + 2, Len(selectors) = 0, toPorts))

\* yaml.Marshal(policy): the fields in the order of the struct, namespace,
\* ingress and egress left out when empty
Marshal(policy) ==
    ScalarEntry(0, FALSE, kApiVersion, policy.APIVersion)
    \o ScalarEntry(0, FALSE, kKind, policy.Kind)
    \o <<OpenEntry(0, FALSE, kMetadata)>>
    \o ScalarEntry(4, FALSE, kName, policy.Metadata.Name)
    \o (IF policy.Metadata.Namespace = <<>> THEN <<>>
        ELSE ScalarEntry(4, FALSE, kNamespace, policy.Metadata.Namespace))
    \o <<OpenEntry(0, FALSE, kSpec), OpenEntry(4, FALSE, kEndpointSelector)>>
    \o MatchLabelsLines(8, FALSE, policy.Spec.EndpointSelector.MatchLabels)
    \o (IF Len(policy.Spec.Ingress) = 0 THEN <<>>
        ELSE <<OpenEntry(4, FALSE, kIngress)>>
             \o Concat([i \in 1..Len(policy.Spec.Ingress) |->
                           RuleLines(8, kFromEndpoints,
                                     policy.Spec.Ingress[i].FromEndpoints,
                                     policy.Spec.Ingress[i].ToPorts)]))
    \o (IF Len(policy.Spec.Egress) = 0 THEN <<>>
        ELSE <<OpenEntry(4, FALSE, kEgress)>>
             \o Concat([i \in 1..Len(policy.Spec.Egress) |->
                           RuleLines(8, kToEndpoints,
                                     policy.Spec.Egress[i].ToEndpoints,
                                     policy.Spec.Egress[i].ToPorts)]))

\* a separator written before every policy, the first as well
SeparatorAlways(i) ==
    <<SepLine>>

\* the document separator is written before every policy but the first
SeparatorBefore(i) ==
    IF i > 1 THEN <<SepLine>> ELSE <<>>

\* the guard of WritePoliciesToFile
NoPoliciesToWrite(ps) ==
    Len(ps) = 0

\* WritePoliciesToFile: the lines of the file written
WritePoliciesToFile(ps) ==
    Concat([i \in 1..Len(ps) |-> SeparatorBefore(i) \o Marshal(ps[i])])

\* the bytes of a key or value in its style
Quoted(style, s) ==
    IF style = "dquote" THEN <<34>> \o s \o <<34>> ELSE s

\* the bytes of a line, without its line break
LineText(line) ==
    LET pad == [i \in 1..(IF line.dash THEN line.ind - 2 ELSE line.ind) |-> 32]
    IN  IF line.kind = "sep" THEN line.val
        ELSE IF line.kind = "text" THEN pad \o line.val
        ELSE IF line.kind = "item" THEN pad \o <<45, 32>> \o line.val
        ELSE pad \o (IF line.dash THEN <<45, 32>> ELSE <<>>)
             \o Quoted(StyleOf(line.key), line.key) \o <<58>>
             \o (IF line.style = "none" THEN <<>>
                 ELSE <<32>> \o Quoted(line.style, line.val))

\* the bytes of the file: every line ends with a line break
FileText(lines) ==
    Concat([i \in 1..Len(lines) |-> LineText(lines[i]) \o <<10>>])

(***************************************************************************)
(* yaml.Unmarshal of one document into map[string]interface{}, as          *)
(* verifyPolicyDocument calls it: block mappings and sequences are read by *)
(* their indentation.  A value is a record [t, m, s, v]: t is "map" (m: a  *)
(* function from keys), "seq" (s: a sequence), "str", "int", "bool" (v:    *)
(* the text) or "null".  Keys are read as strings.                         *)
(***************************************************************************)
Node(t, m, s, v) == [t |-> t, m |-> m, s |-> s, v |-> v]

NullNode == Node("null", <<>>, <<>>, <<>>)

MapNode(m) == Node("map", m, <<>>, <<>>)

SeqNode(s) == Node("seq", <<>>, s, <<>>)

ScalarNode(t, v) == Node(t, <<>>, <<>>, v)

ParseFail == [ok |-> FALSE, v |-> NullNode]

Parsed(v) == [ok |-> TRUE, v |-> v]

IsSpace(c) == c \in {9, 10, 11, 12, 13, 32}

\* the indexes of s that hold no white space
Solid(s) ==
    {i \in 1..Len(s) : ~IsSpace(s[i])}

\* strings.TrimSpace: s from its first to its last byte that is no space
TrimSpace(s) ==
    IF Solid(s) = {} THEN <<>>
    ELSE SubSeq(s, CHOOSE i \in Solid(s) : \A j \in Solid(s) : i <= j,
                   CHOOSE i \in Solid(s) : \A j \in Solid(s) : j <= i)

\* a line whose text is empty or white space: never an entry, an item or
\* a separator, whose texts hold a colon or a dash
BlankLine(line) ==
    line.kind = "text" /\ TrimSpace(LineText(line)) = <<>>

\* the column a line's content starts at
StartCol(line) == IF line.dash THEN line.ind - 2 ELSE line.ind

\* the first of the lines lo..hi that is not blank (hi + 1 when all are)
FirstSolid(ls, lo, hi) ==
    IF \A m \in lo..hi : BlankLine(ls[m]) THEN hi + 1
    ELSE CHOOSE m \in lo..hi :
             ~BlankLine(ls[m]) /\ \A n \in lo..(m - 1) : BlankLine(ls[n])

\* the last of the lines lo..hi that is not blank (lo - 1 when all are)
LastSolid(ls, lo, hi) ==
    IF \A m \in lo..hi : BlankLine(ls[m]) THEN lo - 1
    ELSE CHOOSE m \in lo..hi :
             ~BlankLine(ls[m]) /\ \A n \in (m + 1)..hi : BlankLine(ls[n])

\* the lines among lo..hi that open an entry of the mapping at column col
\* that starts at line lo; `item` says that line lo follows the "- " of a
\* sequence item
Entries(ls, lo, hi, col, item) ==
    {k \in lo..hi : /\ ls[k].kind = "entry"
                    /\ ls[k].ind = col
                    /\ (ls[k].dash => (k = lo /\ item))}

\* the lines among lo..hi that open an item of the sequence whose "- "
\* stand at column dashCol
Items(ls, lo, hi, dashCol) ==
    {k \in lo..hi : /\ ls[k].kind \in {"entry", "item"}
                    /\ ls[k].dash
                    /\ StartCol(ls[k]) = dashCol}

\* the last line of the part opened at line k, the parts of lo..hi being
\* opened at the lines of starts: the line before the next start, or hi
PartEnd(starts, k, hi) ==
    IF \A m \in starts : m <= k THEN hi
    ELSE (CHOOSE m \in starts : m > k /\ \A n \in starts : n > k => m <= n) - 1

\* the value of a scalar written in a style
ScalarValue(style, val) ==
    IF style = "plain" THEN ScalarNode(ResolvePlain(val), val)
    ELSE IF style = "flow"
         THEN (IF val = <<123, 125>> THEN MapNode(<<>>) ELSE SeqNode(<<>>))
    ELSE ScalarNode("str", val)

RECURSIVE ParseNode(_, _, _)
RECURSIVE ParseMapping(_, _, _, _, _)
RECURSIVE ParseSequence(_, _, _, _)

\* the value of the literal block under the entry at line k of a mapping at
\* column col, the entry reaching to line e: its lines are indented deeper
\* or blank; they are joined by line breaks without the blank lines at the
\* end, "|" keeping one line break, "|-" none
LiteralValue(ls, k, e, col) ==
    IF \A m \in (k + 1)..e : ls[m].kind = "text" /\ (ls[m].ind > col \/ BlankLine(ls[m]))
    THEN Parsed(ScalarNode("str",
                    Join([i \in 1..(LastSolid(ls, k + 1, e) - k) |-> ls[k + i].val], <<10>>)
                    \o (IF ls[k].val = <<124>> THEN <<10>> ELSE <<>>)))
    ELSE ParseFail

\* the value of an entry of a mapping at column col with nothing after its
\* colon, lo being the first line below it that is not blank and hi the
\* entry's last line: the node below it, or null when there is none
NestedValue(ls, lo, hi, col) ==
    IF lo > hi THEN Parsed(NullNode)
    ELSE IF \/ StartCol(ls[lo]) > col
            \/ ls[lo].kind # "text" /\ ls[lo].dash /\ StartCol(ls[lo]) = col
    THEN ParseNode(ls, lo, hi)
    ELSE ParseFail

\* the value of the entry at line k of a mapping at column col, the entry
\* reaching to line e
EntryValue(ls, k, e, col) ==
    IF ls[k].style = "literal" THEN LiteralValue(ls, k, e, col)
    ELSE IF ls[k].style = "none" THEN NestedValue(ls, FirstSolid(ls, k + 1, e), e, col)
    ELSE IF FirstSolid(ls, k + 1, e) > e THEN Parsed(ScalarValue(ls[k].style, ls[k].val))
    ELSE ParseFail

\* the mapping whose entries were read as vals, a set of [k: the entry's
\* line, r: its value]: no value may fail and no key may stand twice
MappingOf(ls, vals) ==
    IF /\ \A x \in vals : x.r.ok
       /\ \A x, y \in vals : ls[x.k].key = ls[y.k].key => x.k = y.k
    THEN Parsed(MapNode([key \in {ls[x.k].key : x \in vals} |->
                            (CHOOSE x \in vals : ls[x.k].key = key).r.v]))
    ELSE ParseFail

\* the mapping at column col over the lines lo..hi, lo not blank
ParseMapping(ls, lo, hi, col, item) ==
    IF lo \notin Entries(ls, lo, hi, col, item) THEN ParseFail
    ELSE MappingOf(ls, {[k |-> k,
                         r |-> EntryValue(ls, k,
                                          PartEnd(Entries(ls, lo, hi, col, item), k, hi),
                                          col)] :
                        k \in Entries(ls, lo, hi, col, item)})

\* the item at line k of a sequence, the item reaching to line e
ItemValue(ls, k, e) ==
    IF ls[k].kind = "entry" THEN ParseMapping(ls, k, e, ls[k].ind, TRUE)
    ELSE IF FirstSolid(ls, k + 1, e) > e THEN Parsed(ScalarValue(ls[k].style, ls[k].val))
    ELSE ParseFail

\* the sequence whose items were read as vals, a set of [k: the item's
\* line, r: its value], in the order of their lines
SequenceOf(vals) ==
    IF \A x \in vals : x.r.ok
    THEN Parsed(SeqNode([i \in 1..Cardinality(vals) |->
                            (CHOOSE x \in vals :
                                 Cardinality({y \in vals : y.k < x.k}) = i - 1).r.v]))
    ELSE ParseFail

\* the sequence whose "- " stand at column dashCol over the lines lo..hi,
\* lo not blank
ParseSequence(ls, lo, hi, dashCol) ==
    SequenceOf({[k |-> k,
                 r |-> ItemValue(ls, k, PartEnd(Items(ls, lo, hi, dashCol), k, hi))] :
                k \in Items(ls, lo, hi, dashCol)})

\* a plain scalar of the given words
PlainNode(words) ==
    Parsed(ScalarNode(ResolvePlain(words), words))

\* a plain scalar over the lines lo..hi: its lines folded with spaces; only
\* blank lines may follow them
PlainText(ls, lo, hi) ==
    IF \A m \in lo..LastSolid(ls, lo, hi) : ls[m].kind = "text" /\ ~BlankLine(ls[m])
    THEN PlainNode(Join([i \in 1..(LastSolid(ls, lo, hi) - lo + 1) |->
                            TrimSpace(ls[lo + i - 1].val)], <<32>>))
    ELSE ParseFail

\* the block node over the lines lo..hi, lo not blank
ParseNode(ls, lo, hi) ==
    IF ls[lo].kind = "text" THEN PlainText(ls, lo, hi)
    ELSE IF ls[lo].dash THEN ParseSequence(ls, lo, hi, StartCol(ls[lo]))
    ELSE ParseMapping(ls, lo, hi, ls[lo].ind, FALSE)

\* the document whose top node was read as top: err when it is not well
\* formed or when it is not a mapping
Document(top) ==
    IF ~top.ok \/ top.v.t # "map"
    THEN [err |-> TRUE, policy |-> NullNode]
    ELSE [err |-> FALSE, policy |-> top.v]

\* the document from its first line that is not blank; an empty document
\* leaves the map nil
DocumentFrom(doc, start) ==
    IF start > Len(doc) THEN [err |-> FALSE, policy |-> NullNode]
    ELSE Document(ParseNode(doc, start, Len(doc)))

\* yaml.Unmarshal(doc, &policy)
Unmarshal(doc) ==
    DocumentFrom(doc, FirstSolid(doc, 1, Len(doc)))

(***************************************************************************)
(* package verify.  An error message is its format string with the values  *)
(* formatted into it.                                                      *)
(***************************************************************************)
Msg(format, args) == [msg |-> format, args |-> args]

\* fmt.Errorf(prefix + "%w", ..., err) around the errors of a nested check
Wrap(prefix, index, errs) ==
    [i \in 1..Len(errs) |->
        Msg(prefix \o errs[i].msg, <<FmtD(index)>> \o errs[i].args)]

\* the first of the errors that a loop with early return reports
RECURSIVE FirstError(_)
FirstError(results) ==
    IF results = <<>> THEN <<>>
    ELSE IF results[1] # <<>> THEN results[1]
    ELSE FirstError(Tail(results))

\* m[key] of a map[string]interface{}: nil when absent or m is no map
Field(node, key) ==
    IF node.t = "map" /\ key \in DOMAIN node.m THEN node.m[key] ELSE NullNode

\* the string as it is written
SameCase(s) == s

\* strings.ToUpper on ASCII
ToUpper(s) ==
    [i \in 1..Len(s) |-> IF s[i] \in 97..122 THEN s[i] - 32 ELSE s[i]]

validProtocols == {StrTCP, StrUDP, StrICMP, StrSCTP}

\* the checks of one entry of ports, index i counted from 0
PortEntryError(port, i) ==
    LET portVal == Field(port, kPort)
        protocol == Field(port, kProtocol)
    IN  IF port.t # "map" THEN <<Msg("ports[%d] must be a map", <<FmtD(i)>>)>>
        ELSE IF portVal.t # "str"
        THEN <<Msg("ports[%d] missing required field: port", <<FmtD(i)>>)>>
        ELSE IF portVal.v = <<>>
        THEN <<Msg("ports[%d].port cannot be empty", <<FmtD(i)>>)>>
        ELSE IF protocol.t # "str"
        THEN <<Msg("ports[%d] missing required field: protocol", <<FmtD(i)>>)>>
        ELSE IF ToUpper(protocol.v) \notin validProtocols
        THEN <<Msg("ports[%d].protocol invalid: must be TCP, UDP, ICMP, or SCTP",
                   <<FmtD(i)>>)>>
        ELSE <<>>

\* validatePortRule: <<>> for nil, else the one error returned
validatePortRule(portRule) ==
    LET ports == Field(portRule, kPorts)
    IN  IF portRule.t # "map" THEN <<Msg("port rule must be a map", <<>>)>>
        ELSE IF ports.t # "seq" THEN <<Msg("missing required field: ports", <<>>)>>
        ELSE IF Len(ports.s) = 0 THEN <<Msg("ports array cannot be empty", <<>>)>>
        ELSE FirstError([i \in 1..Len(ports.s) |-> PortEntryError(ports.s[i], i - 1)])

\* a check of an entry that asks for matchLabels but lets it be empty
EndpointPresent(name, ep, i) ==
    IF ep.t # "map" THEN <<Msg(name \o "[%d] must be a map", <<FmtD(i)>>)>>
    ELSE IF Field(ep, kMatchLabels).t # "map"
    THEN <<Msg(name \o "[%d] missing matchLabels", <<FmtD(i)>>)>>
    ELSE <<>>

\* the checks of one entry of fromEndpoints or toEndpoints
EndpointError(name, ep, i) ==
    LET matchLabels == Field(ep, kMatchLabels)
    IN  IF ep.t # "map" THEN <<Msg(name \o "[%d] must be a map", <<FmtD(i)>>)>>
        ELSE IF matchLabels.t # "map"
        THEN <<Msg(name \o "[%d] missing matchLabels", <<FmtD(i)>>)>>
        ELSE IF DOMAIN matchLabels.m = {}
        THEN <<Msg(name \o "[%d].matchLabels cannot be empty", <<FmtD(i)>>)>>
        ELSE <<>>

\* the body shared by validateIngressRule and validateEgressRule
ValidateRule(rule, kind, name, key) ==
    LET endpoints == Field(rule, key)
        toPorts == Field(rule, kToPorts)
        epErr == IF endpoints.t # "seq" THEN <<>>
                 ELSE FirstError([i \in 1..Len(endpoints.s) |->
                                     EndpointError(name, endpoints.s[i], i - 1)])
        portErr == IF toPorts.t # "seq" THEN <<>>
                   ELSE FirstError([i \in 1..Len(toPorts.s) |->
                                       Wrap("toPorts[%d]: ", i - 1,
                                            validatePortRule(toPorts.s[i]))])
    IN  IF rule.t # "map" THEN <<Msg(kind \o " rule must be a map", <<>>)>>
        ELSE IF epErr # <<>> THEN epErr
        ELSE portErr

validateIngressRule(rule) ==
    ValidateRule(rule, "ingress", "fromEndpoints", kFromEndpoints)

\* an egress check that looks for the selectors under fromEndpoints
validateEgressFrom(rule) ==
    ValidateRule(rule, "egress", "toEndpoints", kFromEndpoints)

validateEgressRule(rule) ==
    ValidateRule(rule, "egress", "toEndpoints", kToEndpoints)

\* the errors verifyPolicyDocument collects for a parsed document
DocumentErrors(policy) ==
    LET apiVersion == Field(policy, kApiVersion)
        kind == Field(policy, kKind)
        metadata == Field(policy, kMetadata)
        name == Field(metadata, kName)
        spec == Field(policy, kSpec)
        endpointSelector == Field(spec, kEndpointSelector)
        matchLabels == Field(endpointSelector, kMatchLabels)
        ingress == Field(spec, kIngress)
        egress == Field(spec, kEgress)
    IN  (IF apiVersion.t # "str" THEN <<Msg("missing required field: apiVersion", <<>>)>>
         ELSE IF apiVersion.v # StrAPIVersion
         THEN <<Msg("invalid apiVersion: expected 'cilium.io/v2', got '%s'",
                    <<apiVersion.v>>)>>
         ELSE <<>>)
        \o (IF kind.t # "str" THEN <<Msg("missing required field: kind", <<>>)>>
            ELSE IF kind.v # StrKind
            THEN <<Msg("invalid kind: expected 'CiliumNetworkPolicy', got '%s'",
                       <<kind.v>>)>>
            ELSE <<>>)
        \o (IF metadata.t # "map" THEN <<Msg("missing required field: metadata", <<>>)>>
            ELSE IF name.t # "str"
            THEN <<Msg("missing required field: metadata.name", <<>>)>>
            ELSE IF name.v = <<>> THEN <<Msg("metadata.name cannot be empty", <<>>)>>
            ELSE <<>>)
        \o (IF spec.t # "map" THEN <<Msg("missing required field: spec", <<>>)>>
            ELSE (IF endpointSelector.t # "map"
                  THEN <<Msg("missing required field: spec.endpointSelector", <<>>)>>
                  ELSE IF matchLabels.t # "map"
                  THEN <<Msg("missing required field: spec.endpointSelector.matchLabels",
                             <<>>)>>
                  ELSE IF DOMAIN matchLabels.m = {}
                  THEN <<Msg("endpointSelector.matchLabels cannot be empty", <<>>)>>
                  ELSE <<>>)
                 \o (IF ingress.t # "seq" THEN <<>>
                     ELSE Concat([i \in 1..Len(ingress.s) |->
                                     Wrap("ingress[%d]: ", i - 1,
                                          validateIngressRule(ingress.s[i]))]))
                 \o (IF egress.t # "seq" THEN <<>>
                     ELSE Concat([i \in 1..Len(egress.s) |->
                                     Wrap("egress[%d]: ", i - 1,
                                          validateEgressRule(egress.s[i]))])))

\* v, ok := m[key].(string): the string, or "" when the field is no string
StrField(node, key) ==
    IF node.t = "map" /\ key \in DOMAIN node.m /\ node.m[key].t = "str"
    THEN node.m[key].v
    ELSE <<>>

\* a PolicyInfo that stops at the first error of the document
FirstErrorInfo(policy, errors) ==
    [Name |-> StrField(Field(policy, kMetadata), kName),
     Namespace |-> StrField(Field(policy, kMetadata), kNamespace),
     Kind |-> StrField(policy, kKind),
     Valid |-> errors = <<>>,
     Errors |-> IF errors = <<>> THEN <<>> ELSE <<errors[1]>>]

\* the PolicyInfo of a parsed document with its errors
PolicyInfo(policy, errors) ==
    [Name |-> StrField(Field(policy, kMetadata), kName),
     Namespace |-> StrField(Field(policy, kMetadata), kNamespace),
     Kind |-> StrField(policy, kKind),
     Valid |-> errors = <<>>,
     Errors |-> errors]

\* verifyPolicyDocument after yaml.Unmarshal
Verified(parsed) ==
    IF parsed.err
    THEN [err |-> TRUE,
          info |-> [Name |-> <<>>, Namespace |-> <<>>, Kind |-> <<>>,
                    Valid |-> FALSE,
                    Errors |-> <<Msg("invalid YAML syntax: %w", <<>>)>>]]
    ELSE [err |-> FALSE,
          info |-> PolicyInfo(parsed.policy, DocumentErrors(parsed.policy))]

\* verifyPolicyDocument: err (a syntax error) or the PolicyInfo
verifyPolicyDocument(yamlDoc) ==
    Verified(Unmarshal(yamlDoc))

\* strings.TrimSpace(line) == "---": never an entry, whose text holds a colon
IsBoundary(line) ==
    line.kind # "entry" /\ TrimSpace(LineText(line)) = StrMarker

\* strings.Split(yamlContent, "\n"): the file's lines and, after the last
\* line break, an empty piece
SplitFile(fileLines) ==
    Append(fileLines, Line("text", 0, FALSE, <<>>, "none", <<>>))

\* the lines at which the loop of splitYAMLDocuments takes its "---" branch
Boundaries(lines) ==
    {i \in 1..Len(lines) : IsBoundary(lines[i])}

\* the last boundary among the first n lines (0 when there is none)
LastBoundary(marks, n) ==
    IF \A i \in marks : i > n THEN 0
    ELSE CHOOSE i \in marks : i <= n /\ \A j \in marks : j <= n => j <= i

\* currentDoc when the loop has read n lines: the lines written to it since
\* it was last reset, which is at every boundary
CurrentDoc(lines, marks, n) ==
    SubSeq(lines, LastBoundary(marks, n) + 1, n)

\* the boundaries the loop reaches with currentDoc.Len() > 0, where it
\* appends currentDoc to documents
Closing(marks) ==
    {i \in marks : LastBoundary(marks, i - 1) < i - 1}

\* the documents appended in the loop, in the order of their boundaries
Closed(lines, marks, closing) ==
    [k \in 1..Cardinality(closing) |->
        CurrentDoc(lines, marks,
                   (CHOOSE i \in closing : Cardinality({j \in closing : j < i}) = k - 1) - 1)]

\* the end of splitYAMLDocuments: the document still open is added
SplitEnd(documents, currentDoc) ==
    IF Len(currentDoc) > 0 THEN Append(documents, currentDoc) ELSE documents

\* the loop of splitYAMLDocuments over lines, and its end
SplitAt(lines, marks) ==
    SplitEnd(Closed(lines, marks, Closing(marks)), CurrentDoc(lines, marks, Len(lines)))

\* the lines split at their boundaries
SplitAll(lines) ==
    SplitAt(lines, Boundaries(lines))

\* splitYAMLDocuments
splitYAMLDocuments(fileLines) ==
    SplitAll(SplitFile(fileLines))

\* strings.TrimSpace(doc) == ""
BlankDocument(doc) ==
    \A i \in 1..Len(doc) : BlankLine(doc[i])

\* a step of the loop that gives up at a document that is no YAML: the
\* error is kept but the results so far are lost
StopAtUnparsed(before, n, checked) ==
    IF checked.err
    THEN [Valid |-> FALSE,
          Errors |-> Append(before.Errors, Msg("Document %d: %v", <<FmtD(n)>>)),
          Policies |-> <<>>]
    ELSE [Valid |-> before.Valid /\ checked.info.Valid,
          Errors |-> before.Errors,
          Policies |-> Append(before.Policies, checked.info)]

\* one step of the loop of VerifyPolicies: document n was checked
AddDocument(before, n, checked) ==
    IF checked.err
    THEN [Valid |-> FALSE,
          Errors |-> Append(before.Errors, Msg("Document %d: %v", <<FmtD(n)>>)),
          Policies |-> Append(before.Policies, checked.info)]
    ELSE [Valid |-> before.Valid /\ checked.info.Valid,
          Errors |-> before.Errors,
          Policies |-> Append(before.Policies, checked.info)]

\* the loop of VerifyPolicies over the first n documents
RECURSIVE VerifyAfter(_, _)
VerifyAfter(documents, n) ==
    IF n = 0 THEN [Valid |-> TRUE, Errors |-> <<>>, Policies |-> <<>>]
    ELSE IF BlankDocument(documents[n]) THEN VerifyAfter(documents, n - 1)
    ELSE AddDocument(VerifyAfter(documents, n - 1), n,
                     verifyPolicyDocument(documents[n]))

\* an end of VerifyPolicies that leaves the verdict of the loop as it is
KeepVerdict(verified) ==
    verified

\* the end of VerifyPolicies: a file without policies is not valid
VerifyEnd(verified) ==
    IF Len(verified.Policies) = 0
    THEN [verified EXCEPT !.Valid = FALSE,
                          !.Errors = Append(@, Msg("no valid policies found in file",
                                                   <<>>))]
    ELSE verified

\* the documents of the file, verified in turn
VerifyDocuments(documents) ==
    VerifyEnd(VerifyAfter(documents, Len(documents)))

\* VerifyPolicies on the lines read from the file
VerifyPolicies(fileLines) ==
    VerifyDocuments(splitYAMLDocuments(fileLines))

(***************************************************************************)
(* The run: an input is drawn, synthesized, written and verified.          *)
(***************************************************************************)
NoFile == <<>>

NoResult == [Valid |-> FALSE, Errors |-> <<>>, Policies |-> <<>>]

Init ==
    /\ flows \in SeqsUpTo(FlowUniverse, MaxFlows)
    /\ pc = "start"
    /\ policies = <<>>
    /\ synthErr = ""
    /\ writeErr = ""
    /\ file = NoFile
    /\ result = NoResult
    /\ namespaceFilter = <<>>

Synthesize ==
    /\ pc = "start"
    /\ \E out \in SynthesizePolicies(flows) :
          /\ policies' = out.policies
          /\ synthErr' = out.err
          /\ pc' = IF out.err = "" THEN "synthesized" ELSE "failed"
    /\ UNCHANGED <<flows, writeErr, file, result, namespaceFilter>>

Write ==
    /\ pc = "synthesized"
    /\ IF NoPoliciesToWrite(policies)
       THEN /\ writeErr' = "no policies to write"
            /\ pc' = "failed"
            /\ file' = file
       ELSE /\ writeErr' = ""
            /\ pc' = "written"
            /\ file' = WritePoliciesToFile(policies)
    /\ UNCHANGED <<flows, policies, synthErr, result, namespaceFilter>>

Verify ==
    /\ pc = "written"
    /\ result' = VerifyPolicies(file)
    /\ pc' = "verified"
    /\ UNCHANGED <<flows, policies, synthErr, writeErr, file, namespaceFilter>>

Next ==
    \/ Synthesize
    \/ Write
    \/ Verify

Spec == Init /\ [][Next]_vars

(***************************************************************************)
(* The same run on flows whose destinations carry several of the preferred *)
(* label keys, and on flows that differ in the fields of ParsedFlow other  *)
(* than labels, destination namespace, port and protocol.                  *)
(***************************************************************************)
MaxFieldFlows == 2

\* the value each label key carries in these flows
LabelValue ==
    (KeyApp :> <<120>>) @@ (KeyK8sApp :> <<107>>) @@ (KeyName :> <<110>>)
    @@ (KeyComponent :> <<99>>) @@ (<<98>> :> <<122>>)

\* destination label sets: every choice of preferred keys, beside a label
\* "b" that is none of them
PreferredLabelSets ==
    {[k \in ks \cup {<<98>>} |-> LabelValue[k]] :
        ks \in SUBSET {KeyApp, KeyK8sApp, KeyName, KeyComponent}}

\* flows to {app: x} whose verdict, pods or source namespace vary
FieldFlows ==
    { [ParsedFlow(LblAppF, NsA, LblAppX, 80, StrTCP) EXCEPT !.Verdict = "DROPPED"],
      [ParsedFlow(LblAppF, NsA, LblAppX, 443, StrTCP) EXCEPT !.SourceNamespace = <<99>>],
      [ParsedFlow(LblAppF, NsA, LblAppX, 80, StrTCP) EXCEPT !.SourcePod = <<112>>,
                                                            !.DestPod = <<113>>],
      ParsedFlow(LblAppF, NsA, LblAppX, 443, StrTCP) }

\* flows to {app: x} over two protocols from two sources whose labels "%v"
\* prints alike
AlikeSourceFlows ==
    { ParsedFlow(LblSpace, NsA, LblAppX, 80, StrTCP),
      ParsedFlow(LblTwo, NsA, LblAppX, 443, StrUDP) }

FieldUniverse ==
    {ParsedFlow(LblAppF, NsA, labels, 80, StrTCP) : labels \in PreferredLabelSets}
    \cup FieldFlows
    \cup AlikeSourceFlows

InitFields ==
    /\ flows \in SeqsUpTo(FieldUniverse, MaxFieldFlows)
    /\ pc = "start"
    /\ policies = <<>>
    /\ synthErr = ""
    /\ writeErr = ""
    /\ file = NoFile
    /\ result = NoResult
    /\ namespaceFilter = <<>>

SpecFields == InitFields /\ [][Next]_vars

(***************************************************************************)
(* The verify command on a file that was written by hand: VerifyPolicies   *)
(* reads whatever the file holds.  A document is given as the value it     *)
(* stands for (maps, lists and strings) and written in block style; an     *)
(* optional field is <<>> when left out and <<value>> when given.          *)
(***************************************************************************)
MaxDocs == 2

StrNode(v) == ScalarNode("str", v)

\* the map with the field, or without it when it is left out
Opt(key, value) ==
    IF value = <<>> THEN <<>> ELSE (key :> value[1])

RECURSIVE EmitMap(_, _, _, _)

\* the sequence item for a node: a map's entries after "- ", or "- {}"
EmitItem(node, dashCol) ==
    IF node.t = "map" /\ DOMAIN node.m # {}
    THEN EmitMap(node.m, SortedStrings(DOMAIN node.m), dashCol + 2, TRUE)
    ELSE <<Line("item", dashCol + 2, TRUE, <<>>, "flow", <<123, 125>>)>>

\* the lines of "key: node" at column ind
EmitEntry(key, node, ind, dash) ==
    IF node.t = "map"
    THEN (IF DOMAIN node.m = {}
          THEN <<Line("entry", ind, dash, key, "flow", <<123, 125>>)>>
          ELSE <<OpenEntry(ind, dash, key)>>
               \o EmitMap(node.m, SortedStrings(DOMAIN node.m), NextIndent(ind), FALSE))
    ELSE IF node.t = "seq"
    THEN (IF Len(node.s) = 0
          THEN <<Line("entry", ind, dash, key, "flow", <<91, 93>>)>>
          ELSE <<OpenEntry(ind, dash, key)>>
               \o Concat([i \in 1..Len(node.s) |-> EmitItem(node.s[i], NextIndent(ind))]))
    ELSE IF node.t = "int"
    THEN <<Line("entry", ind, dash, key, "plain", node.v)>>
    ELSE ScalarEntry(ind, dash, key, node.v)

\* the entries of a map in the order ks of its keys
EmitMap(m, ks, ind, dash) ==
    Concat([i \in 1..Len(ks) |-> EmitEntry(ks[i], m[ks[i]], ind, dash /\ i = 1)])

\* the lines of a document whose top level is the map node
EmitDocument(node) ==
    EmitMap(node.m, SortedStrings(DOMAIN node.m), 0, FALSE)

\* matchLabels values: {app: x} and {}
LabelNodes ==
    {MapNode(KeyApp :> StrNode(<<120>>)), MapNode(<<>>)}

\* an entry of fromEndpoints: matchLabels given or left out
EndpointNode(labels) ==
    MapNode(Opt(kMatchLabels, labels))

\* an entry of ports
PortNode(port, protocol) ==
    MapNode(Opt(kPort, port) @@ Opt(kProtocol, protocol))

\* an entry of toPorts: ports given or left out
PortRuleNode(ports) ==
    MapNode(Opt(kPorts, ports))

\* an entry of ingress
RuleNode(fromEndpoints, toPorts) ==
    MapNode(Opt(kFromEndpoints, fromEndpoints) @@ Opt(kToPorts, toPorts))

\* a policy document
DocNode(apiVersion, kind, name, matchLabels, ingress) ==
    MapNode(Opt(kApiVersion, apiVersion)
            @@ Opt(kKind, kind)
            @@ (kMetadata :> MapNode(Opt(kName, name) @@ (kNamespace :> StrNode(NsA))))
            @@ (kSpec :> MapNode((kEndpointSelector :> MapNode(Opt(kMatchLabels, matchLabels)))
                                 @@ Opt(kIngress, ingress))))

\* the map with key from renamed to key to
RenameKey(m, from, to) ==
    [k \in (DOMAIN m \ {from}) \cup (IF from \in DOMAIN m THEN {to} ELSE {}) |->
        IF k = to THEN m[from] ELSE m[k]]

\* the document with the rules of spec.<list> under spec.<otherList>, their
\* selectors under otherSelector instead of selector
Redirected(doc, list, selector, otherList, otherSelector) ==
    LET spec == doc.m[kSpec]
        rules == spec.m[list].s
        moved == [i \in 1..Len(rules) |->
                     MapNode(RenameKey(rules[i].m, selector, otherSelector))]
    IN  IF list \in DOMAIN spec.m /\ spec.m[list].t = "seq"
        THEN MapNode([doc.m EXCEPT ![kSpec] =
                         MapNode(RenameKey([spec.m EXCEPT ![list] = SeqNode(moved)],
                                           list, otherList))])
        ELSE doc

\* the document with its ingress rules written as egress rules
AsEgress(doc) ==
    Redirected(doc, kIngress, kFromEndpoints, kEgress, kToEndpoints)

StrHTTP == <<72, 84, 84, 80>>   \* "HTTP"

\* what a hand-written file may give for a string field: the right value, a
\* wrong one, or nothing; a port may also be written as a number (port: 80)
ApiVersions == {<<StrNode(StrAPIVersion)>>, <<StrNode(<<119, 114, 111, 110, 103, 47, 118, 49>>)>>, <<>>}

Kinds == {<<StrNode(StrKind)>>, <<StrNode(<<80, 111, 100>>)>>, <<>>}

Names == {<<StrNode(<<112>>)>>, <<StrNode(<<>>)>>, <<>>}

Selectors == {<<n>> : n \in LabelNodes} \cup {<<>>}

PortValues ==
    {<<StrNode(<<56, 48>>)>>, <<ScalarNode("int", <<56, 48>>)>>, <<StrNode(<<>>)>>, <<>>}

Protocols ==
    {<<StrNode(v)>> : v \in {StrTCP, <<116, 99, 112>>, <<84, 99, 112>>, StrUDP, StrICMP,
                             StrSCTP, StrHTTP, <<>>}}
    \cup {<<>>}

\* the toPorts lists: left out, or one port rule whose ports are left out,
\* empty, or one entry
ToPortsChoices ==
    {<<>>, <<SeqNode(<<PortRuleNode(<<>>)>>)>>, <<SeqNode(<<PortRuleNode(<<SeqNode(<<>>)>>)>>)>>}
    \cup {<<SeqNode(<<PortRuleNode(<<SeqNode(<<PortNode(port, protocol)>>)>>)>>)>> :
             port \in PortValues, protocol \in Protocols}

\* the fromEndpoints lists: left out, or one entry
FromChoices ==
    {<<>>} \cup {<<SeqNode(<<EndpointNode(labels)>>)>> : labels \in Selectors}

Rules ==
    {RuleNode(fromEndpoints, toPorts) :
        fromEndpoints \in FromChoices, toPorts \in ToPortsChoices}

GoodRule ==
    RuleNode(<<SeqNode(<<EndpointNode(<<MapNode(KeyApp :> StrNode(<<120>>))>>)>>)>>,
             <<SeqNode(<<PortRuleNode(<<SeqNode(<<PortNode(<<StrNode(<<56, 48>>)>>,
                                                          <<StrNode(StrTCP)>>)>>)>>)>>)>>)

\* rules with no fault, one fault or two faults
SomeRules ==
    {GoodRule,
     RuleNode(<<SeqNode(<<EndpointNode(<<MapNode(<<>>)>>)>>)>>,
              <<SeqNode(<<PortRuleNode(<<SeqNode(<<PortNode(<<StrNode(<<56, 48>>)>>,
                                                           <<StrNode(StrTCP)>>)>>)>>)>>)>>),
     RuleNode(<<SeqNode(<<EndpointNode(<<MapNode(KeyApp :> StrNode(<<120>>))>>)>>)>>,
              <<SeqNode(<<PortRuleNode(<<SeqNode(<<PortNode(<<StrNode(<<56, 48>>)>>,
                                                           <<StrNode(StrHTTP)>>)>>)>>)>>)>>),
     RuleNode(<<SeqNode(<<EndpointNode(<<MapNode(<<>>)>>)>>)>>,
              <<SeqNode(<<PortRuleNode(<<SeqNode(<<PortNode(<<StrNode(<<56, 48>>)>>,
                                                           <<StrNode(StrHTTP)>>)>>)>>)>>)>>)}

\* what stands for spec.ingress when a hand-edited file gives it another shape
\* than a list: a string, a map, or a list whose rule gives fromEndpoints or
\* toPorts as a string
MisshapenLists ==
    {StrNode(<<120>>),
     MapNode(kFromEndpoints :> SeqNode(<<EndpointNode(<<MapNode(<<>>)>>)>>)),
     SeqNode(<<RuleNode(<<StrNode(<<120>>)>>, <<GoodRule.m[kToPorts]>>)>>),
     SeqNode(<<RuleNode(<<GoodRule.m[kFromEndpoints]>>, <<StrNode(<<120>>)>>)>>)}

GoodDocument ==
    DocNode(<<StrNode(StrAPIVersion)>>, <<StrNode(StrKind)>>, <<StrNode(<<112>>)>>,
            <<MapNode(KeyApp :> StrNode(<<120>>))>>, <<SeqNode(<<GoodRule>>)>>)

\* the documents of the files that hold one document
Documents ==
    {DocNode(apiVersion, kind, name, matchLabels, ingress) :
        apiVersion \in ApiVersions, kind \in Kinds, name \in Names,
        matchLabels \in Selectors,
        ingress \in {<<>>} \cup {<<SeqNode(<<r>>)>> : r \in SomeRules}}
    \cup {DocNode(<<StrNode(StrAPIVersion)>>, <<StrNode(StrKind)>>, <<StrNode(<<112>>)>>,
                  <<MapNode(KeyApp :> StrNode(<<120>>))>>, <<SeqNode(<<r>>)>>) :
             r \in Rules}
    \cup {DocNode(<<StrNode(StrAPIVersion)>>, <<StrNode(StrKind)>>, <<StrNode(<<112>>)>>,
                  <<MapNode(KeyApp :> StrNode(<<120>>))>>, <<SeqNode(<<r1, r2>>)>>) :
             r1 \in SomeRules, r2 \in SomeRules}
    \cup {DocNode(<<StrNode(StrAPIVersion)>>, <<StrNode(StrKind)>>, <<StrNode(<<112>>)>>,
                  <<MapNode(KeyApp :> StrNode(<<120>>))>>, <<ingress>>) :
             ingress \in MisshapenLists}
    \cup {AsEgress(DocNode(<<StrNode(StrAPIVersion)>>, <<StrNode(StrKind)>>,
                           <<StrNode(<<112>>)>>, <<MapNode(KeyApp :> StrNode(<<120>>))>>,
                           <<SeqNode(rs)>>)) :
             rs \in {<<r>> : r \in Rules} \cup (SomeRules \X SomeRules)}

\* the pieces a file of several documents is put together from: a valid
\* document, an invalid one, one that is no YAML (a key stands twice), a
\* blank line, nothing
Pieces ==
    {EmitDocument(GoodDocument),
     EmitDocument(DocNode(<<>>, <<StrNode(StrKind)>>, <<StrNode(<<112>>)>>,
                          <<MapNode(KeyApp :> StrNode(<<120>>))>>, <<>>)),
     <<Line("entry", 0, FALSE, kKind, "plain", StrKind)>> \o EmitDocument(GoodDocument),
     <<Line("text", 0, FALSE, <<>>, "none", <<>>)>>,
     <<>>}

\* the pieces with "---" between them
RECURSIVE JoinPieces(_)
JoinPieces(pieces) ==
    IF pieces = <<>> THEN <<>>
    ELSE IF Len(pieces) = 1 THEN pieces[1]
    ELSE pieces[1] \o <<SepLine>> \o JoinPieces(Tail(pieces))

\* the files the verify command is run on
Files ==
    {EmitDocument(doc) : doc \in Documents}
    \cup {JoinPieces(pieces) : pieces \in SeqsUpTo(Pieces, MaxDocs)}

InitVerify ==
    /\ flows = <<>>
    /\ pc = "read"
    /\ policies = <<>>
    /\ synthErr = ""
    /\ writeErr = ""
    /\ file \in Files
    /\ result = NoResult
    /\ namespaceFilter = <<>>

\* the verify command: VerifyPolicies on the file
VerifyFile ==
    /\ pc = "read"
    /\ result' = VerifyPolicies(file)
    /\ pc' = "verified"
    /\ UNCHANGED <<flows, policies, synthErr, writeErr, file, namespaceFilter>>

SpecVerify == InitVerify /\ [][VerifyFile]_vars

(***************************************************************************)
(* The propose command: the parsed flows are filtered by --namespace, when  *)
(* it is given, synthesized and written.  namespaceFilter is "" when the   *)
(* flag is not given.                                                      *)
(***************************************************************************)
MaxProposeFlows == 2

\* a flow from a labelled source in namespace srcNs to {app: x} in dstNs
NamespaceFlow(srcNs, dstNs) ==
    [ParsedFlow(LblAppF, dstNs, LblAppX, 80, StrTCP) EXCEPT !.SourceNamespace = srcNs]

\* flows within a namespace and across namespaces, and one without
\* destination labels
ProposeUniverse ==
    {NamespaceFlow(srcNs, dstNs) : srcNs \in {NsA, NsB}, dstNs \in {NsA, NsB}}
    \cup {[ParsedFlow(LblAppF, NsA, NoLabels, 80, StrTCP) EXCEPT !.SourceNamespace = NsB]}

\* the flow passes the filter: its source or destination is in the namespace
InNamespace(flow, ns) ==
    flow.SourceNamespace = ns \/ flow.DestNamespace = ns

\* the flows left by the namespace filter
Filtered(fs, ns) ==
    IF ns = <<>> THEN fs
    ELSE SelectSeq(fs, LAMBDA flow : InNamespace(flow, ns))

InitPropose ==
    /\ flows \in SeqsUpTo(ProposeUniverse, MaxProposeFlows)
    /\ pc = "start"
    /\ policies = <<>>
    /\ synthErr = ""
    /\ writeErr = ""
    /\ file = NoFile
    /\ result = NoResult
    /\ namespaceFilter \in {<<>>, NsA, NsB}

\* cmdPropose up to the call of WritePoliciesToFile
Propose ==
    /\ pc = "start"
    /\ IF Len(flows) = 0
       THEN /\ synthErr' = "no valid flows found to generate policies from"
            /\ policies' = <<>>
            /\ pc' = "failed"
       ELSE IF namespaceFilter # <<>> /\ Len(Filtered(flows, namespaceFilter)) = 0
       THEN /\ synthErr' = "no flows found in namespace '%s'"
            /\ policies' = <<>>
            /\ pc' = "failed"
       ELSE \E out \in SynthesizePolicies(Filtered(flows, namespaceFilter)) :
               /\ policies' = out.policies
               /\ synthErr' = IF out.err # "" THEN "failed to synthesize policies: %w"
                              ELSE IF Len(out.policies) = 0
                              THEN "no policies generated (flows may be missing required metadata)"
                              ELSE ""
               /\ pc' = IF out.err = "" /\ Len(out.policies) > 0 THEN "synthesized"
                        ELSE "failed"
    /\ UNCHANGED <<flows, writeErr, file, result, namespaceFilter>>

NextPropose ==
    \/ Propose
    \/ Write
    \/ Verify

SpecPropose == InitPropose /\ [][NextPropose]_vars

(***************************************************************************)
(* What the claims speak of.                                               *)
(***************************************************************************)
\* the orderings of a sequence
SeqPerms(fs) ==
    {[i \in 1..Len(fs) |-> fs[order[i]]] : order \in Perms(1..Len(fs))}

FlowSet == {flows[i] : i \in 1..Len(flows)}

\* a flow with a destination namespace and destination labels
DestinationUsable(flow) ==
    flow.DestNamespace # <<>> /\ DOMAIN flow.DestLabels # {}

\* a flow with source labels and a non-zero port
SourceUsable(flow) ==
    DOMAIN flow.SourceLabels # {} /\ flow.DestPort # 0

Usable(flow) == DestinationUsable(flow) /\ SourceUsable(flow)

\* the (policy, rule, port entry) triples of the returned policies
PortEntries ==
    {[p |-> policies[i], r |-> policies[i].Spec.Ingress[j],
      pp |-> policies[i].Spec.Ingress[j].ToPorts[k].Ports[l]] :
        <<i, j, k, l>> \in
            {ix \in (1..Len(policies)) \X (1..MaxFlows) \X (1..MaxFlows) \X (1..MaxFlows) :
                /\ ix[2] <= Len(policies[ix[1]].Spec.Ingress)
                /\ ix[3] <= Len(policies[ix[1]].Spec.Ingress[ix[2]].ToPorts)
                /\ ix[4] <= Len(policies[ix[1]].Spec.Ingress[ix[2]].ToPorts[ix[3]].Ports)}}

\* the flow is to the policy's endpoint
ToPolicy(flow, p) ==
    /\ flow.DestNamespace = p.Metadata.Namespace
    /\ flow.DestLabels = p.Spec.EndpointSelector.MatchLabels

\* C1: for every ordering of the same flows, synthesis followed by
\* WritePoliciesToFile gives the same bytes: whatever was written for the
\* input is what every ordering of it, on every run, writes.
C1_Determinism ==
    pc = "written" =>
        \A fs \in SeqPerms(flows) :
            \A out \in SynthesizePolicies(fs) :
                FileText(WritePoliciesToFile(out.policies)) = FileText(file)

\* C2: when the flows' protocols are TCP, UDP or unspecified and a policy was
\* synthesized, VerifyPolicies finds the written file valid: the overall
\* verdict, every document's result, and no file-level error.
C2_SynthesizeThenValidate ==
    (/\ pc = "verified"
     /\ \A f \in FlowSet : f.Protocol \in {StrTCP, StrUDP, <<>>}
     /\ Len(policies) >= 1)
    => /\ result.Valid
       /\ \A i \in 1..Len(result.Policies) : result.Policies[i].Valid
       /\ result.Errors = <<>>
       /\ Len(result.Policies) = Len(policies)

\* C3: every port entry of every rule of every returned policy is backed by
\* an input flow with the policy's destination identity, the rule's source
\* labels, the entry's port and the entry's protocol (TCP when unspecified).
C3_Minimality ==
    pc = "synthesized" =>
        \A e \in PortEntries :
            \E f \in FlowSet :
                /\ ToPolicy(f, e.p)
                /\ f.SourceLabels = e.r.FromEndpoints[1].MatchLabels
                /\ FmtD(f.DestPort) = e.pp.Port
                /\ (IF f.Protocol = <<>> THEN StrTCP ELSE f.Protocol) = e.pp.Protocol

\* C4: every input flow with destination namespace, destination labels,
\* source labels and a non-zero port is permitted by the returned policies:
\* some policy has its destination identity and a rule for its source labels
\* that lists its port and protocol.
C4_Completeness ==
    pc = "synthesized" =>
        \A f \in {g \in FlowSet : Usable(g)} :
            \E e \in PortEntries :
                /\ ToPolicy(f, e.p)
                /\ e.r.FromEndpoints[1].MatchLabels = f.SourceLabels
                /\ e.pp.Port = FmtD(f.DestPort)
                /\ e.pp.Protocol = (IF f.Protocol = <<>> THEN StrTCP ELSE f.Protocol)

\* C5: an empty flow collection makes SynthesizePolicies fail with
\* "no flows provided" and return no policy list, never an empty success.
C5_EmptyInputFails ==
    (flows = <<>> /\ pc # "start") =>
        /\ pc = "failed"
        /\ synthErr = "no flows provided"
        /\ policies = <<>>

C5_Witness ==
    flows = <<>> /\ pc = "failed" /\ synthErr = "no flows provided"

\* C6: a non-empty flow collection never makes SynthesizePolicies fail; when
\* no flow is synthesizable the result is an empty list without error, and
\* when some flow is usable, alone or among unusable ones, policies come out.
C6_NonEmptyInputNeverFails ==
    (flows # <<>> /\ pc # "start") =>
        /\ synthErr = ""
        /\ (\A f \in FlowSet : ~Usable(f)) => policies = <<>>
        /\ (\E f \in FlowSet : Usable(f)) => policies # <<>>

C6_Witness ==
    /\ pc = "synthesized"
    /\ synthErr = ""
    /\ policies # <<>>
    /\ \E f \in FlowSet : ~DestinationUsable(f)
    /\ \E f \in FlowSet : DestinationUsable(f) /\ ~SourceUsable(f)

\* C7: two flows with usable destinations are in the same unit exactly when
\* their destination namespaces and label maps are equal; so no two returned
\* policies have the same (namespace, selector), and every flow grouped under
\* a policy's unit has that policy's destination identity.
C7_UnitIdentity ==
    pc = "synthesized" =>
        /\ \A f, g \in {h \in FlowSet : DestinationUsable(h)} :
               (endpointKeyToString(EndpointKey(f)) = endpointKeyToString(EndpointKey(g)))
               <=> (f.DestNamespace = g.DestNamespace /\ f.DestLabels = g.DestLabels)
        /\ \A i, j \in 1..Len(policies) :
               (/\ policies[i].Metadata.Namespace = policies[j].Metadata.Namespace
                /\ policies[i].Spec.EndpointSelector = policies[j].Spec.EndpointSelector)
               => i = j
        /\ \A order \in groupFlowsByEndpoint(flows) :
               \A i \in 1..Len(order) :
                   \A k \in 1..Len(order[i].Flows) :
                       /\ order[i].Flows[k].DestNamespace = order[i].Key.Namespace
                       /\ order[i].Flows[k].DestLabels = order[i].Key.Labels

\* the flows that have a destination, in their order
RECURSIVE WithDestination(_)
WithDestination(fs) ==
    IF fs = <<>> THEN <<>>
    ELSE (IF DestinationUsable(fs[1]) THEN <<fs[1]>> ELSE <<>>)
         \o WithDestination(Tail(fs))

\* C8: every returned policy has a non-empty namespace and a non-empty
\* selector, and the flows without destination labels or namespace can be
\* removed from the input, when flows remain, without changing what
\* SynthesizePolicies can return.
C8_NoDestinationNoPolicy ==
    pc = "synthesized" =>
        /\ \A i \in 1..Len(policies) :
               /\ policies[i].Metadata.Namespace # <<>>
               /\ DOMAIN policies[i].Spec.EndpointSelector.MatchLabels # {}
        /\ WithDestination(flows) # <<>> =>
               /\ SynthesizePolicies(WithDestination(flows)) = SynthesizePolicies(flows)
               /\ [policies |-> policies, err |-> synthErr]
                      \in SynthesizePolicies(WithDestination(flows))

C8_Witness ==
    /\ pc = "synthesized"
    /\ policies # <<>>
    /\ \E f \in FlowSet : f.DestNamespace = <<>>
    /\ \E f \in FlowSet : DOMAIN f.DestLabels = {}

\* C9: no ingress rule of a returned policy has an empty fromEndpoints
\* selector and no port entry is "0"; a rule's source labels and an entry's
\* port come from a flow that has source labels and a non-zero port.
C9_NoEmptySourceNoPortZero ==
    pc = "synthesized" =>
        /\ \A i \in 1..Len(policies) :
               \A j \in 1..Len(policies[i].Spec.Ingress) :
                   /\ Len(policies[i].Spec.Ingress[j].FromEndpoints) = 1
                   /\ DOMAIN policies[i].Spec.Ingress[j].FromEndpoints[1].MatchLabels # {}
        /\ \A e \in PortEntries :
               /\ e.pp.Port # FmtD(0)
               /\ \E f \in FlowSet :
                      /\ SourceUsable(f)
                      /\ FmtD(f.DestPort) = e.pp.Port

C9_Witness ==
    /\ pc = "synthesized"
    /\ policies # <<>>
    /\ \E f \in FlowSet : DestinationUsable(f) /\ DOMAIN f.SourceLabels = {}
    /\ \E f \in FlowSet : DestinationUsable(f) /\ f.DestPort = 0

\* the key strings of the units that have a flow with source labels and a port
UnitsWithRules ==
    {endpointKeyToString(EndpointKey(f)) : f \in {g \in FlowSet : Usable(g)}}

\* C10: every returned policy has an ingress rule, every rule a toPorts
\* entry, every toPorts entry a port; and policies come only from units with
\* a flow that has source labels and a port, one policy per such unit.
C10_NoEmptyPolicy ==
    pc = "synthesized" =>
        /\ \A i \in 1..Len(policies) :
               /\ Len(policies[i].Spec.Ingress) >= 1
               /\ \A j \in 1..Len(policies[i].Spec.Ingress) :
                      /\ Len(policies[i].Spec.Ingress[j].ToPorts) >= 1
                      /\ \A k \in 1..Len(policies[i].Spec.Ingress[j].ToPorts) :
                             Len(policies[i].Spec.Ingress[j].ToPorts[k].Ports) >= 1
        /\ Len(policies) = Cardinality(UnitsWithRules)

C10_Witness ==
    /\ pc = "synthesized"
    /\ Len(policies) = 1
    /\ \E f \in FlowSet :
           /\ DestinationUsable(f)
           /\ ~SourceUsable(f)
           /\ endpointKeyToString(EndpointKey(f)) \notin UnitsWithRules

\* the units the grouping loop forms from the input
Units ==
    {GroupsAfter(flows, Len(flows))[ks] : ks \in DOMAIN GroupsAfter(flows, Len(flows))}

\* the unit a returned policy was generated for
UnitOf(p) ==
    CHOOSE g \in Units :
        g.Key = [Namespace |-> p.Metadata.Namespace,
                 Labels |-> p.Spec.EndpointSelector.MatchLabels]

\* the source label sets of a unit's flows that have source labels and a port
SourcesOf(g) ==
    {g.Flows[i].SourceLabels : i \in {k \in 1..Len(g.Flows) : SourceUsable(g.Flows[k])}}

\* C11: a returned policy has as many ingress rules as its unit's usable
\* flows have distinct source label sets; every rule has one fromEndpoints
\* selector and no two rules of a policy have equal source label sets.
C11_OneRulePerSource ==
    pc = "synthesized" =>
        \A i \in 1..Len(policies) :
            /\ Len(policies[i].Spec.Ingress) = Cardinality(SourcesOf(UnitOf(policies[i])))
            /\ \A j \in 1..Len(policies[i].Spec.Ingress) :
                   Len(policies[i].Spec.Ingress[j].FromEndpoints) = 1
            /\ \A j, k \in 1..Len(policies[i].Spec.Ingress) :
                   policies[i].Spec.Ingress[j].FromEndpoints[1].MatchLabels
                       = policies[i].Spec.Ingress[k].FromEndpoints[1].MatchLabels
                   => j = k

\* the (toPorts entry, port entry) positions of a rule
RuleEntries(rule) ==
    {ix \in (1..Len(rule.ToPorts)) \X (1..MaxFlows) : ix[2] <= Len(rule.ToPorts[ix[1]].Ports)}

\* the flows are usable and differ in nothing but their destination ports:
\* one source, one destination, one protocol (TCP when unspecified)
OnlyPortsDiffer ==
    /\ flows # <<>>
    /\ \A f \in FlowSet : Usable(f)
    /\ \A f, g \in FlowSet :
           /\ f.SourceLabels = g.SourceLabels
           /\ f.DestNamespace = g.DestNamespace
           /\ f.DestLabels = g.DestLabels
           /\ ProtocolOf(f) = ProtocolOf(g)

\* C12: no rule of a returned policy lists a (port, protocol) pair twice
\* across its toPorts entries; and flows that differ only in their ports give
\* one policy with one rule that lists each of their ports once, under their
\* protocol, and nothing else.
C12_PortsOnce ==
    pc = "synthesized" =>
        /\ \A i \in 1..Len(policies) :
               \A j \in 1..Len(policies[i].Spec.Ingress) :
                   \A a, b \in RuleEntries(policies[i].Spec.Ingress[j]) :
                       policies[i].Spec.Ingress[j].ToPorts[a[1]].Ports[a[2]]
                           = policies[i].Spec.Ingress[j].ToPorts[b[1]].Ports[b[2]]
                       => a = b
        /\ OnlyPortsDiffer =>
               /\ Len(policies) = 1
               /\ Len(policies[1].Spec.Ingress) = 1
               /\ Cardinality(RuleEntries(policies[1].Spec.Ingress[1]))
                      = Cardinality({f.DestPort : f \in FlowSet})
               /\ {policies[1].Spec.Ingress[1].ToPorts[a[1]].Ports[a[2]] :
                       a \in RuleEntries(policies[1].Spec.Ingress[1])}
                      = {[Port |-> FmtD(f.DestPort), Protocol |-> ProtocolOf(f)] :
                             f \in FlowSet}

C12_Witness ==
    /\ pc = "synthesized"
    /\ OnlyPortsDiffer
    /\ Len(flows) > Cardinality({f.DestPort : f \in FlowSet})
    /\ Cardinality({f.DestPort : f \in FlowSet}) >= 2

\* the value of the first of app, k8s:app, name, component among the labels
FirstPreferred(labels) ==
    IF KeyApp \in DOMAIN labels THEN labels[KeyApp]
    ELSE IF KeyK8sApp \in DOMAIN labels THEN labels[KeyK8sApp]
    ELSE IF KeyName \in DOMAIN labels THEN labels[KeyName]
    ELSE labels[KeyComponent]

HasPreferred(labels) ==
    {KeyApp, KeyK8sApp, KeyName, KeyComponent} \cap DOMAIN labels # {}

\* C13: a returned policy whose destination labels hold one of app, k8s:app,
\* name, component is named by the value of the first of them, in this
\* order, followed by "-policy", whatever other labels there are; the name
\* for no labels is "default-policy".
C13_NamingPriority ==
    /\ pc = "synthesized" =>
           \A i \in 1..Len(policies) :
               HasPreferred(policies[i].Spec.EndpointSelector.MatchLabels) =>
                   policies[i].Metadata.Name
                       = FirstPreferred(policies[i].Spec.EndpointSelector.MatchLabels)
                         \o StrPolicySuffix
    /\ PolicyNames(NoLabels) = {StrDefaultPolicy}

C13_Witness ==
    /\ pc = "synthesized"
    /\ \E i \in 1..Len(policies) :
           /\ KeyApp \notin DOMAIN policies[i].Spec.EndpointSelector.MatchLabels
           /\ {KeyName, KeyComponent, <<98>>}
                  \subseteq DOMAIN policies[i].Spec.EndpointSelector.MatchLabels
           /\ policies[i].Metadata.Name = <<110>> \o StrPolicySuffix

\* C14: for destination labels with none of the preferred keys and two or
\* more labels, the name of the returned policy is the one name
\* generatePolicyName can return for these labels: it depends on the labels
\* alone.
C14_FallbackDeterministic ==
    pc = "synthesized" =>
        \A i \in 1..Len(policies) :
            (/\ ~HasPreferred(policies[i].Spec.EndpointSelector.MatchLabels)
             /\ Cardinality(DOMAIN policies[i].Spec.EndpointSelector.MatchLabels) >= 2)
            => PolicyNames(policies[i].Spec.EndpointSelector.MatchLabels)
                   = {policies[i].Metadata.Name}

\* the flow with verdict ALLOWED, no pod names and source namespace "a"
Neutral(flow) ==
    [flow EXCEPT !.Verdict = "ALLOWED", !.SourcePod = <<>>, !.DestPod = <<>>,
                 !.SourceNamespace = NsA]

NeutralFlows ==
    [i \in 1..Len(flows) |-> Neutral(flows[i])]

\* C15: SynthesizePolicies can return for the flows exactly what it can
\* return for the flows that differ from them only in verdict, pod names and
\* source namespace; what it returned is among these.
C15_FieldsNotConsulted ==
    /\ SynthesizePolicies(NeutralFlows) = SynthesizePolicies(flows)
    /\ pc = "synthesized" =>
           [policies |-> policies, err |-> synthErr] \in SynthesizePolicies(NeutralFlows)

C15_Witness ==
    /\ pc = "synthesized"
    /\ policies # <<>>
    /\ \E f \in FlowSet : f.Verdict = "DROPPED"
    /\ \E f \in FlowSet : f.SourceNamespace # NsA /\ f.DestPort = 443
    /\ NeutralFlows # flows

\* the documents found in the file that are not blank
NonBlankDocuments ==
    {n \in 1..Len(splitYAMLDocuments(file)) : ~BlankDocument(splitYAMLDocuments(file)[n])}

\* C16: the result of VerifyPolicies is valid exactly when a document that
\* is not blank was found and every document's result is valid; there is one
\* result per such document; a file without any is invalid, has no results
\* and carries the error "no valid policies found in file".
C16_AggregateVerdict ==
    pc = "verified" =>
        /\ result.Valid <=> (/\ NonBlankDocuments # {}
                             /\ \A i \in 1..Len(result.Policies) : result.Policies[i].Valid)
        /\ Len(result.Policies) = Cardinality(NonBlankDocuments)
        /\ NonBlankDocuments = {} =>
               /\ ~result.Valid
               /\ result.Policies = <<>>
               /\ \E i \in 1..Len(result.Errors) :
                      result.Errors[i] = Msg("no valid policies found in file", <<>>)

C16_Witness ==
    /\ pc = "verified"
    /\ Len(file) >= 2
    /\ NonBlankDocuments = {}
    /\ ~result.Valid
    /\ result.Errors = <<Msg("no valid policies found in file", <<>>)>>

\* the file holds one document, which is well-formed YAML
OneDocument ==
    /\ Len(splitYAMLDocuments(file)) = 1
    /\ ~BlankDocument(splitYAMLDocuments(file)[1])
    /\ ~Unmarshal(splitYAMLDocuments(file)[1]).err

\* the value of the one document of the file
ThePolicy ==
    Unmarshal(splitYAMLDocuments(file)[1]).policy

\* the entries of a list, none when the value is no list
List(node) ==
    IF node.t = "seq" THEN node.s ELSE <<>>

\* two strings that are equal up to the case of their ASCII letters
SameLetters(a, b) ==
    /\ Len(a) = Len(b)
    /\ \A i \in 1..Len(a) :
           \/ a[i] = b[i]
           \/ a[i] \in 65..90 /\ b[i] = a[i] + 32
           \/ a[i] \in 97..122 /\ b[i] = a[i] - 32

ApiVersionViolated(p) ==
    ~(Field(p, kApiVersion).t = "str" /\ Field(p, kApiVersion).v = StrAPIVersion)

KindViolated(p) ==
    ~(Field(p, kKind).t = "str" /\ Field(p, kKind).v = StrKind)

NameViolated(p) ==
    ~(/\ Field(Field(p, kMetadata), kName).t = "str"
      /\ Field(Field(p, kMetadata), kName).v # <<>>)

\* matchLabels is missing or empty in the selector
LabelsViolated(selector) ==
    ~(/\ Field(selector, kMatchLabels).t = "map"
      /\ DOMAIN Field(selector, kMatchLabels).m # {})

SelectorViolated(p) ==
    LabelsViolated(Field(Field(p, kSpec), kEndpointSelector))

\* the number of the four top-level requirements the document violates
TopViolations(p) ==
    Cardinality({r \in {"apiVersion", "kind", "name", "selector"} :
                    \/ r = "apiVersion" /\ ApiVersionViolated(p)
                    \/ r = "kind" /\ KindViolated(p)
                    \/ r = "name" /\ NameViolated(p)
                    \/ r = "selector" /\ SelectorViolated(p)})

\* ports is missing or empty in the port rule
PortsViolated(portRule) ==
    ~(Field(portRule, kPorts).t = "seq" /\ Len(Field(portRule, kPorts).s) > 0)

\* the port entry has no port that is a string, or an empty one
PortViolated(port) ==
    ~(Field(port, kPort).t = "str" /\ Field(port, kPort).v # <<>>)

\* protocol is missing or none of TCP, UDP, ICMP, SCTP in the port entry
ProtocolViolated(port) ==
    ~(/\ Field(port, kProtocol).t = "str"
      /\ \E v \in {StrTCP, StrUDP, StrICMP, StrSCTP} :
             SameLetters(Field(port, kProtocol).v, v))

\* the violations in the entries of fromEndpoints of a rule
FromViolations(rule) ==
    {<<"matchLabels", e>> :
        e \in {e \in 1..Len(List(Field(rule, kFromEndpoints))) :
                  LabelsViolated(List(Field(rule, kFromEndpoints))[e])}}

\* the violations in one entry of toPorts
PortRuleViolations(portRule, t) ==
    IF PortsViolated(portRule) THEN {<<"ports", t>>}
    ELSE {<<"port", t, q>> :
             q \in {q \in 1..Len(Field(portRule, kPorts).s) :
                       PortViolated(Field(portRule, kPorts).s[q])}}
         \cup {<<"protocol", t, q>> :
                  q \in {q \in 1..Len(Field(portRule, kPorts).s) :
                            ProtocolViolated(Field(portRule, kPorts).s[q])}}

\* the violations in the entries of toPorts of a rule
ToPortsViolations(rule) ==
    UNION {PortRuleViolations(List(Field(rule, kToPorts))[t], t) :
              t \in 1..Len(List(Field(rule, kToPorts)))}

\* the entries of spec.ingress
IngressOf(p) ==
    List(Field(Field(p, kSpec), kIngress))

\* the number of violations in the ingress rules of the document
IngressViolations(p) ==
    Cardinality(UNION {{<<r, x>> : x \in FromViolations(IngressOf(p)[r])
                                      \cup ToPortsViolations(IngressOf(p)[r])} :
                          r \in 1..Len(IngressOf(p))})

\* the entries of spec.egress
EgressOf(p) ==
    List(Field(Field(p, kSpec), kEgress))

\* the violations in the entries of toEndpoints of an egress rule
ToViolations(rule) ==
    {<<"matchLabels", e>> :
        e \in {e \in 1..Len(List(Field(rule, kToEndpoints))) :
                  LabelsViolated(List(Field(rule, kToEndpoints))[e])}}

\* the number of violations in the egress rules of the document
EgressViolations(p) ==
    Cardinality(UNION {{<<r, x>> : x \in ToViolations(EgressOf(p)[r])
                                      \cup ToPortsViolations(EgressOf(p)[r])} :
                          r \in 1..Len(EgressOf(p))})

\* C17: the errors of a document are as many as the violations in it: one
\* for every top-level requirement violated and one for every violation in
\* an ingress or egress rule, also when one rule holds several.
C17_NoShortCircuit ==
    (pc = "verified" /\ OneDocument) =>
        Len(result.Policies[1].Errors)
            = TopViolations(ThePolicy) + IngressViolations(ThePolicy)
                  + EgressViolations(ThePolicy)

\* how many of the errors carry one of the messages
Reported(errors, messages) ==
    Cardinality({i \in 1..Len(errors) : errors[i].msg \in messages})

ApiVersionMessages ==
    {"missing required field: apiVersion",
     "invalid apiVersion: expected 'cilium.io/v2', got '%s'"}

KindMessages ==
    {"missing required field: kind",
     "invalid kind: expected 'CiliumNetworkPolicy', got '%s'"}

NameMessages ==
    {"missing required field: metadata", "missing required field: metadata.name",
     "metadata.name cannot be empty"}

SelectorMessages ==
    {"missing required field: spec", "missing required field: spec.endpointSelector",
     "missing required field: spec.endpointSelector.matchLabels",
     "endpointSelector.matchLabels cannot be empty"}

\* the only fault of the document is apiVersion: wrong/v1
OnlyWrongApiVersion(p) ==
    /\ Field(p, kApiVersion) = StrNode(<<119, 114, 111, 110, 103, 47, 118, 49>>)
    /\ ~KindViolated(p)
    /\ ~NameViolated(p)
    /\ ~SelectorViolated(p)
    /\ IngressViolations(p) = 0

\* C18: a parseable document is valid only if apiVersion, kind, metadata.name
\* and spec.endpointSelector.matchLabels are all as required; each of the
\* four that is violated adds exactly one error and each that is satisfied
\* adds none; a document whose only fault is apiVersion: wrong/v1 is invalid
\* with exactly one error.
C18_TopLevelChecks ==
    (pc = "verified" /\ OneDocument) =>
        LET info == result.Policies[1]
            One(violated) == IF violated THEN 1 ELSE 0
        IN  /\ info.Valid => TopViolations(ThePolicy) = 0
            /\ Reported(info.Errors, ApiVersionMessages)
                   = One(ApiVersionViolated(ThePolicy))
            /\ Reported(info.Errors, KindMessages) = One(KindViolated(ThePolicy))
            /\ Reported(info.Errors, NameMessages) = One(NameViolated(ThePolicy))
            /\ Reported(info.Errors, SelectorMessages)
                   = One(SelectorViolated(ThePolicy))
            /\ OnlyWrongApiVersion(ThePolicy) =>
                   /\ ~info.Valid
                   /\ Len(info.Errors) = 1
                   /\ info.Errors[1].msg \in ApiVersionMessages

\* a document that violates all four requirements has been verified
C18_Witness ==
    /\ pc = "verified"
    /\ OneDocument
    /\ TopViolations(ThePolicy) = 4
    /\ Len(result.Policies[1].Errors) >= 4

\* a document whose only fault is apiVersion: wrong/v1 has been verified
C18_WitnessApiVersion ==
    /\ pc = "verified"
    /\ OneDocument
    /\ OnlyWrongApiVersion(ThePolicy)
    /\ ~result.Policies[1].Valid

\* the messages of the faults of fromEndpoints, ports and port in a rule
RuleFaultMessages ==
    {"ingress[%d]: fromEndpoints[%d] missing matchLabels",
     "ingress[%d]: fromEndpoints[%d].matchLabels cannot be empty",
     "ingress[%d]: toPorts[%d]: missing required field: ports",
     "ingress[%d]: toPorts[%d]: ports array cannot be empty",
     "ingress[%d]: toPorts[%d]: ports[%d] missing required field: port",
     "ingress[%d]: toPorts[%d]: ports[%d].port cannot be empty"}

\* the messages of the faults of protocol in a rule
ProtocolMessages ==
    {"ingress[%d]: toPorts[%d]: ports[%d] missing required field: protocol",
     "ingress[%d]: toPorts[%d]: ports[%d].protocol invalid: must be TCP, UDP, ICMP, or SCTP"}

\* the violations of a rule but for those of protocol
RuleFaults(rule) ==
    FromViolations(rule) \cup {x \in ToPortsViolations(rule) : x[1] # "protocol"}

\* the errors reported for entry r of spec.ingress, r counted from 1
IngressErrors(errors, r) ==
    {i \in 1..Len(errors) :
        /\ errors[i].msg \in RuleFaultMessages \cup ProtocolMessages
        /\ errors[i].args[1] = FmtD(r - 1)}

\* C19: a document is invalid whenever an entry of spec.ingress has an entry
\* of fromEndpoints whose matchLabels is missing or empty, a port rule whose
\* ports is missing or empty, or a port entry whose port is missing or
\* empty, and the error names that entry of spec.ingress; entries with none
\* of these faults and valid protocols get no ingress error, also when they
\* leave out fromEndpoints or toPorts.
C19_IngressRuleChecks ==
    (pc = "verified" /\ OneDocument) =>
        LET info == result.Policies[1]
        IN  \A r \in 1..Len(IngressOf(ThePolicy)) :
                /\ RuleFaults(IngressOf(ThePolicy)[r]) # {} =>
                       /\ ~info.Valid
                       /\ \E i \in IngressErrors(info.Errors, r) :
                              info.Errors[i].msg \in RuleFaultMessages
                /\ (FromViolations(IngressOf(ThePolicy)[r])
                        \cup ToPortsViolations(IngressOf(ThePolicy)[r])) = {} =>
                       IngressErrors(info.Errors, r) = {}

\* a document with a faulty rule and one with no fault has been verified
C19_Witness ==
    /\ pc = "verified"
    /\ OneDocument
    /\ Len(IngressOf(ThePolicy)) = 2
    /\ RuleFaults(IngressOf(ThePolicy)[1]) = {}
    /\ ToPortsViolations(IngressOf(ThePolicy)[1]) = {}
    /\ RuleFaults(IngressOf(ThePolicy)[2]) # {}
    /\ IngressErrors(result.Policies[1].Errors, 1) = {}
    /\ IngressErrors(result.Policies[1].Errors, 2) # {}

\* a rule that leaves out fromEndpoints and toPorts has been verified
C19_WitnessOmitted ==
    /\ pc = "verified"
    /\ OneDocument
    /\ Len(IngressOf(ThePolicy)) = 1
    /\ Field(IngressOf(ThePolicy)[1], kFromEndpoints) = NullNode
    /\ Field(IngressOf(ThePolicy)[1], kToPorts) = NullNode
    /\ result.Policies[1].Valid

\* the port entries of the rules
PortEntriesIn(rules) ==
    UNION {UNION {{Field(List(Field(rules[r], kToPorts))[t], kPorts).s[q] :
                      q \in 1..Len(List(Field(List(Field(rules[r], kToPorts))[t],
                                              kPorts)))} :
                     t \in 1..Len(List(Field(rules[r], kToPorts)))} :
              r \in 1..Len(rules)}

\* the port entries of the ingress and egress rules of the document
PortEntriesOf(p) ==
    PortEntriesIn(IngressOf(p)) \cup PortEntriesIn(EgressOf(p))

\* the messages of the faults of protocol in an egress rule
EgressProtocolMessages ==
    {"egress[%d]: toPorts[%d]: ports[%d] missing required field: protocol",
     "egress[%d]: toPorts[%d]: ports[%d].protocol invalid: must be TCP, UDP, ICMP, or SCTP"}

\* C20: a port entry is accepted only if its protocol is one of TCP, UDP,
\* ICMP, SCTP whatever the case of its letters: a document with a port entry
\* of another protocol or of none is invalid whatever the rest of it is, no
\* protocol error is reported when every entry has one of the four, and a
\* document with no other fault whose protocols are written tcp, Tcp or TCP
\* is valid.
C20_ProtocolEnumeration ==
    (pc = "verified" /\ OneDocument) =>
        LET info == result.Policies[1]
        IN  /\ (\E port \in PortEntriesOf(ThePolicy) : ProtocolViolated(port)) =>
                   ~info.Valid
            /\ (\A port \in PortEntriesOf(ThePolicy) : ~ProtocolViolated(port)) =>
                   Reported(info.Errors, ProtocolMessages \cup EgressProtocolMessages) = 0
            /\ (/\ TopViolations(ThePolicy) = 0
                /\ IngressViolations(ThePolicy) = 0
                /\ EgressViolations(ThePolicy) = 0) => info.Valid

\* a document whose protocol is written tcp has been found valid
C20_Witness ==
    /\ pc = "verified"
    /\ OneDocument
    /\ \E port \in PortEntriesOf(ThePolicy) :
           Field(port, kProtocol) = StrNode(<<116, 99, 112>>)
    /\ result.Policies[1].Valid

\* a document whose only fault is the protocol HTTP has been found invalid
C20_WitnessHTTP ==
    /\ pc = "verified"
    /\ OneDocument
    /\ TopViolations(ThePolicy) = 0
    /\ IngressViolations(ThePolicy) = 1
    /\ \E port \in PortEntriesOf(ThePolicy) : Field(port, kProtocol) = StrNode(StrHTTP)
    /\ ~result.Policies[1].Valid
    /\ Reported(result.Policies[1].Errors, ProtocolMessages) = 1

\* the document has a list of egress rules
HasEgress(p) ==
    Field(Field(p, kSpec), kEgress).t = "seq"

\* the result of validating the rules of spec.egress as rules of spec.ingress
\* with fromEndpoints for toEndpoints
IngressTwin(p) ==
    LET twin == Redirected(p, kEgress, kToEndpoints, kIngress, kFromEndpoints)
    IN  PolicyInfo(twin, DocumentErrors(twin))

\* C21: a list of rules validated under spec.egress with selectors named
\* toEndpoints gets the same verdict and as many errors as the same list
\* validated under spec.ingress with selectors named fromEndpoints.
C21_EgressSymmetry ==
    (pc = "verified" /\ OneDocument /\ HasEgress(ThePolicy)) =>
        /\ result.Policies[1].Valid = IngressTwin(ThePolicy).Valid
        /\ Len(result.Policies[1].Errors) = Len(IngressTwin(ThePolicy).Errors)

\* a document with a faulty egress rule after a good one has been verified,
\* and so has its twin
C21_Witness ==
    /\ pc = "verified"
    /\ OneDocument
    /\ HasEgress(ThePolicy)
    /\ Len(Field(Field(ThePolicy, kSpec), kEgress).s) = 2
    /\ ~result.Policies[1].Valid
    /\ Len(result.Policies[1].Errors) = 1
    /\ result.Policies[1].Errors[1].msg
           = "egress[%d]: toEndpoints[%d].matchLabels cannot be empty"
    /\ IngressTwin(ThePolicy).Errors[1].msg
           = "ingress[%d]: fromEndpoints[%d].matchLabels cannot be empty"

\* the k-th of the documents of the file that are not blank
NthDocument(k) ==
    splitYAMLDocuments(file)[CHOOSE n \in NonBlankDocuments :
                                 Cardinality({m \in NonBlankDocuments : m <= n}) = k]

\* the document is well-formed YAML with no violation in it
Flawless(doc) ==
    /\ ~Unmarshal(doc).err
    /\ TopViolations(Unmarshal(doc).policy) = 0
    /\ IngressViolations(Unmarshal(doc).policy) = 0
    /\ EgressViolations(Unmarshal(doc).policy) = 0

SyntaxError == Msg("invalid YAML syntax: %w", <<>>)

\* C22: a document that is no YAML is recorded as one invalid result with
\* exactly one syntax-error message and does not stop the validation: every
\* document of the file that is not blank has its own result, in file order,
\* which is valid exactly when the document is well-formed and without
\* violation, and carries a syntax error only when the document is no YAML.
C22_UnparseableContinues ==
    pc = "verified" =>
        /\ Len(result.Policies) = Cardinality(NonBlankDocuments)
        /\ \A k \in 1..Len(result.Policies) :
               /\ Unmarshal(NthDocument(k)).err =>
                      /\ ~result.Policies[k].Valid
                      /\ result.Policies[k].Errors = <<SyntaxError>>
               /\ ~Unmarshal(NthDocument(k)).err =>
                      /\ result.Policies[k].Valid <=> Flawless(NthDocument(k))
                      /\ \A i \in 1..Len(result.Policies[k].Errors) :
                             result.Policies[k].Errors[i] # SyntaxError

\* a file with a document that is no YAML before a valid one has been
\* verified
C22_Witness ==
    /\ pc = "verified"
    /\ Len(result.Policies) = 2
    /\ Unmarshal(NthDocument(1)).err
    /\ result.Policies[1].Errors = <<SyntaxError>>
    /\ Flawless(NthDocument(2))
    /\ result.Policies[2].Valid
    /\ ~result.Valid

\* the field is given in the map and is no list
NotAList(node, key) ==
    /\ node.t = "map"
    /\ key \in DOMAIN node.m
    /\ node.m[key].t \notin {"seq", "null"}

\* spec.ingress or spec.egress is no list, or fromEndpoints, toEndpoints or
\* toPorts of one of their rules is none
Misshapen(p) ==
    \/ NotAList(Field(p, kSpec), kIngress)
    \/ NotAList(Field(p, kSpec), kEgress)
    \/ \E r \in 1..Len(IngressOf(p)) :
           \/ NotAList(IngressOf(p)[r], kFromEndpoints)
           \/ NotAList(IngressOf(p)[r], kToPorts)
    \/ \E r \in 1..Len(EgressOf(p)) :
           \/ NotAList(EgressOf(p)[r], kToEndpoints)
           \/ NotAList(EgressOf(p)[r], kToPorts)

\* C23: a document in which spec.ingress or spec.egress is given but is no
\* list, or in which fromEndpoints, toEndpoints or toPorts of a rule is given
\* but is no list, is reported invalid.
C23_MalformedShapesRejected ==
    (pc = "verified" /\ OneDocument /\ Misshapen(ThePolicy)) =>
        ~result.Policies[1].Valid

\* the lines of the file that are the separator "---"
SeparatorLines ==
    {k \in 1..Len(file) : LineText(file[k]) = StrMarker}

\* the lines of the file before its first separator (i = 1) or between its
\* separators i - 1 and i, the end of the file being the last separator
Segment(i) ==
    LET Sep(j) == IF j = 0 THEN 0
                  ELSE IF j > Cardinality(SeparatorLines) THEN Len(file) + 1
                  ELSE CHOOSE k \in SeparatorLines :
                           Cardinality({m \in SeparatorLines : m <= k}) = j
    IN  SubSeq(file, Sep(i - 1) + 1, Sep(i) - 1)

\* C24: for n >= 1 policies WritePoliciesToFile writes n documents in the
\* order of the list with n - 1 separator lines "---", one between two
\* consecutive policies, none before the first and none after the last; for
\* an empty list it returns the error "no policies to write" and writes
\* nothing.
C24_SerializerFraming ==
    /\ pc \in {"written", "verified"} =>
           /\ Len(policies) >= 1
           /\ Cardinality(SeparatorLines) = Len(policies) - 1
           /\ 1 \notin SeparatorLines
           /\ Len(file) \notin SeparatorLines
           /\ \A i \in 1..Len(policies) :
                  /\ Segment(i) = Marshal(policies[i])
                  /\ Segment(i) # <<>>
    /\ (pc = "failed" /\ synthErr = "") =>
           /\ policies = <<>>
           /\ writeErr = "no policies to write"
           /\ file = NoFile
    /\ (pc \in {"written", "verified", "failed"} /\ synthErr = "" /\ policies = <<>>) =>
           pc = "failed"

\* three policies were written
C24_Witness ==
    /\ pc = "written"
    /\ Len(policies) = 3
    /\ Cardinality(SeparatorLines) = 2

\* an empty list of policies was not written
C24_WitnessEmpty ==
    /\ pc = "failed"
    /\ flows # <<>>
    /\ policies = <<>>
    /\ writeErr = "no policies to write"
    /\ file = NoFile

\* C25: with --namespace N every policy the propose command writes has
\* metadata.namespace N, in the list handed to WritePoliciesToFile and in the
\* documents of the file.
C25_ProposeNamespaceOnly ==
    (pc \in {"written", "verified"} /\ namespaceFilter # <<>>) =>
        /\ \A i \in 1..Len(policies) :
               policies[i].Metadata.Namespace = namespaceFilter
        /\ \A n \in NonBlankDocuments :
               StrField(Field(Unmarshal(splitYAMLDocuments(file)[n]).policy, kMetadata),
                        kNamespace) = namespaceFilter

\* the canonical string of a label set: its "key=value" strings in ascending
\* order, joined by ","
CanonicalLabels(labels) ==
    Join(SortedStrings({k \o <<61>> \o labels[k] : k \in DOMAIN labels}), <<44>>)

\* policy p may stand before policy q in the unit order
UnitOrdered(p, q) ==
    \/ StrLess(p.Metadata.Namespace, q.Metadata.Namespace)
    \/ /\ p.Metadata.Namespace = q.Metadata.Namespace
       /\ ~StrLess(CanonicalLabels(q.Spec.EndpointSelector.MatchLabels),
                   CanonicalLabels(p.Spec.EndpointSelector.MatchLabels))

\* C26: the policies SynthesizePolicies returns are in ascending order of
\* their namespace and, within a namespace, in ascending order of the
\* canonical label string of their destination labels.
C26_UnitOrder ==
    (pc # "start" /\ synthErr = "") =>
        \A i, j \in 1..Len(policies) :
            i < j => UnitOrdered(policies[i], policies[j])

\* the number a decimal string stands for
RECURSIVE PortNumber(_)
PortNumber(s) ==
    IF s = <<>> THEN 0
    ELSE 10 * PortNumber(SubSeq(s, 1, Len(s) - 1)) + (s[Len(s)] - 48)

\* C27: in every toPorts entry of every ingress rule of a returned policy
\* the port entries are in ascending order of their port number: of two
\* adjacent entries the earlier has the smaller port.
C27_PortOrder ==
    (pc # "start" /\ synthErr = "") =>
        \A p \in 1..Len(policies) :
            \A r \in 1..Len(policies[p].Spec.Ingress) :
                \A t \in 1..Len(policies[p].Spec.Ingress[r].ToPorts) :
                    LET ports == policies[p].Spec.Ingress[r].ToPorts[t].Ports
                    IN  \A q \in 1..(Len(ports) - 1) :
                            PortNumber(ports[q].Port) < PortNumber(ports[q + 1].Port)

\* the segments of the file cut at its lines "---" that are not blank
SolidSegments ==
    {i \in 1..(Cardinality(SeparatorLines) + 1) : ~BlankDocument(Segment(i))}

\* C28: VerifyPolicies starts a new document at the lines that are "---" and
\* nowhere else, a line that holds the marker after spaces being content of
\* its document, and gives no result for a blank segment: there are as many
\* per-document results as segments between such lines that are not blank.
C28_SplitAtMarkerLines ==
    pc = "verified" =>
        Len(result.Policies) = Cardinality(SolidSegments)

\* C29: no two policies returned by one call of SynthesizePolicies have the
\* same namespace and the same name, also when distinct destination label
\* sets of one namespace share the value of their preferred key.
C29_UniqueNames ==
    (pc # "start" /\ synthErr = "") =>
        \A i, j \in 1..Len(policies) :
            i # j => <<policies[i].Metadata.Namespace, policies[i].Metadata.Name>>
                         # <<policies[j].Metadata.Namespace, policies[j].Metadata.Name>>

\* the protocols, TCP when unspecified, of the unit's flows that have the
\* source labels and a port
ProtocolsFrom(g, labels) ==
    {ProtocolOf(g.Flows[i]) :
        i \in {k \in 1..Len(g.Flows) : /\ SourceUsable(g.Flows[k])
                                       /\ g.Flows[k].SourceLabels = labels}}

\* C30: in every ingress rule of a returned policy each toPorts entry holds
\* ports of one protocol and no two toPorts entries hold the same protocol;
\* the rule has as many toPorts entries as there are protocols among the
\* flows from its source into the unit, an unspecified protocol being TCP.
C30_PerProtocolGrouping ==
    pc = "synthesized" =>
        \A p \in 1..Len(policies) :
            \A r \in 1..Len(policies[p].Spec.Ingress) :
                LET rule == policies[p].Spec.Ingress[r]
                IN  /\ \A t \in 1..Len(rule.ToPorts) :
                           /\ Len(rule.ToPorts[t].Ports) >= 1
                           /\ \A q \in 1..Len(rule.ToPorts[t].Ports) :
                                  rule.ToPorts[t].Ports[q].Protocol
                                      = rule.ToPorts[t].Ports[1].Protocol
                    /\ \A t, u \in 1..Len(rule.ToPorts) :
                           t # u => rule.ToPorts[t].Ports[1].Protocol
                                        # rule.ToPorts[u].Ports[1].Protocol
                    /\ Len(rule.ToPorts)
                           = Cardinality(ProtocolsFrom(UnitOf(policies[p]),
                                                       rule.FromEndpoints[1].MatchLabels))

====
